---- MODULE Spec2Model ----
(***************************************************************************)
(* Model of src/src/jio/core/Promise.js: the Promise object (a Future),    *)
(* the solver returned by defer (its Completer), the chain operator then,  *)
(* the attachment operators done / fail / progress / always and the host   *)
(* task queue that setTimeout(fn) feeds.                                   *)
(*                                                                         *)
(* JavaScript is single threaded: every API call and every host task runs  *)
(* to completion, so each is one atomic action.  Callbacks given to the    *)
(* library are opaque user functions: each time one is called it either    *)
(* returns a value or raises an exception.  A settlement dispatch loops    *)
(* over its own copy of the queue (Promise.js:365, 385), so what a         *)
(* callback does to the promise meanwhile is the same as a later call by   *)
(* user code.  notify loops over the live that._onProgress (403-405): a    *)
(* progress observer may therefore also call back into the library before  *)
(* it returns, registering a further progress observer or settling the     *)
(* promise.  The promise returned by then is armed by then's own wrapper   *)
(* (447, 471); user code arms only promises it built with new Promise().   *)
(*                                                                         *)
(* Several specifications share the actions.  Spec is user code calling    *)
(* the instance methods on a promise it built; SpecObserve is the          *)
(* settlement observers without notify and progress; SpecThen is then      *)
(* alone, with handlers that may return a Future; SpecAttach is the        *)
(* attachment operators alone, called with and without a function;         *)
(* SpecComb is one call of the static when, all or allOrNone on Deferred   *)
(* objects that user code settles; SpecAny is one call of any or execute.  *)
(* SpecFirst, SpecDelay and SpecTimeout add the host's timers and clock    *)
(* for first, delay and timeout.  SpecGet and SpecBlob are the IndexedDB   *)
(* storage of src/src/jio/commands/getCommand.js: documents, and           *)
(* attachments split into parts; SpecRemove adds removeAttachment and      *)
(* SpecRange reads one attachment back in part.  SpecEmpty is one call     *)
(* of all, allOrNone, any or first on the list without items; SpecRaise    *)
(* is observers that raise, in a settlement dispatch and in notify.        *)
(* SpecCrypt is src/src/jio.storage/cryptstorage.js: concurrent            *)
(* putAttachment and getAttachment calls on one CryptStorage, whose        *)
(* callbacks the host runs in any order.                                   *)
(***************************************************************************)
EXTENDS Integers, Sequences, FiniteSets, TLC

\* ---------------------------------------------------------------- bounds
MaxPromises == 2    \* promise objects ever constructed (roots and derived)
MaxOps      == 3    \* API calls made by user code, the arming apart
MaxCallbacks == 2   \* callback arguments user code passes to the library
MaxItems    == 2    \* items handed to all / allOrNone, and Deferred objects
MaxDelay    == 2    \* the delays user code passes to delay and timeout
MaxBlob     == 5    \* the length of the blobs user code stores

VARIABLES
  promises,   \* heap: sequence of Promise objects, index = identity
  tasks,      \* host task queue fed by setTimeout(fn): FIFO of closures
  uncaught,   \* exceptions that escaped a host task
  trace,      \* observation: calls, registrations and callback invocations
  solvers,    \* promises whose solver user code holds (defer() returned it)
  ncb,        \* callback arguments passed so far (a function's identity)
  nops,       \* API calls made so far
  combs,      \* the closure variables of each all / allOrNone call
  timers,     \* the host's timers made by setTimeout(fn, d) / setInterval
  clock,      \* the host's time
  stamps,     \* for each queued task the time at which it was queued
  store,      \* the IndexedDB database of the storage and its last reply
  crypt,      \* the CryptStorage instance and the calls it is serving
  prev        \* the heap and the queue as they were before the last step

vars == <<promises, tasks, uncaught, trace, solvers, ncb, nops, combs, timers,
          clock, stamps, store, crypt, prev>>

\* ---------------------------------------------------------------- values
\* A JavaScript value: a plain value, the return value or the exception of
\* callback n, or the Error that defer raises.
V(tag, n) == [tag |-> tag, n |-> n]
\* the arguments of the k-th API call: resolve, reject and notify take any
\* number of values; every call passes two, the first one its own
Args(k) == <<V("val", k), V("val", 0)>>
ArgTuples == {Args(nops + 1)}
AlreadyError == V("Error:Already", 0)
TypeError == V("TypeError", 0)

\* undefined, and a defined field holding x
Undefined == [def |-> FALSE, v |-> <<>>]
Def(x) == [def |-> TRUE, v |-> x]

\* function Promise(): the object after construction
NewPromiseObject ==
  [state |-> "", answers |-> Undefined,
   onResolve |-> Def(<<>>), onReject |-> Def(<<>>), onProgress |-> Def(<<>>)]

Settled == {"resolved", "rejected"}

\* ------------------------------------------------------------- callbacks
\* A user function, known by its identity.
UserCb(id) == [kind |-> "user", id |-> id, next |-> 0]
\* "not a function" (typeof callback !== 'function')
NoCb == [kind |-> "none", id |-> 0, next |-> 0]
\* the closure then pushes in the pending case: handler h, derived promise
ThenWrapper(h, next) == [kind |-> "then", id |-> h.id, next |-> next]
\* what a call of a user function does
Behaviours == {"ret", "throw"}
\* a then handler may also return a promise: the one it is applied to
\* (its this) or, when it was queued, the one its then call returned
FutureBehaviours == {"this", "next"}
IsFunction(cb) == cb.kind # "none"

\* ----------------------------------------------------------- observation
Ev(e, op, ctx, p, cb, args, threw) ==
  [e |-> e, op |-> op, ctx |-> ctx, p |-> p, cb |-> cb, args |-> args,
   threw |-> threw]
Log(w, ev) == [w EXCEPT !.trace = Append(@, ev)]

\* -------------------------------------------------------- the storage
\* src/src/jio/commands/getCommand.js holds the IndexedDB storage.  Its
\* database has three object stores: metadata (key _id), attachment and
\* blob (key _key_path).  Every method opens one transaction, and IndexedDB
\* runs transactions with overlapping stores one after the other: a method
\* is one atomic step on the database.  Identifiers and names are strings,
\* here sequences of characters.  UNITE is 2000000 in the source and is
\* scaled down here: only its ratio to the blob lengths matters.
UNITE == 2
StoreIds == {<<"a">>, <<"a", "_", "b">>}
StoreNames == {<<"c">>, <<"b", "_", "c">>}
\* a blob is its bytes; the byte at offset i - 1 is i
Blobs == {[i \in 1..n |-> i] : n \in 0..MaxBlob}
NoDoc == [tag |-> "undefined"]
\* the documents user code stores: {_id: id, title: v}
Docs == {[tag |-> "doc", id |-> id, v |-> v] : id \in StoreIds, v \in 1..2}
EmptyStore ==
  [metadata |-> {}, attachment |-> {}, blob |-> {},
   reply |-> [op |-> "none"], lastPut |-> [op |-> "none"]]

\* key_list.join("_")
RECURSIVE BuildKeyPath(_)
BuildKeyPath(key_list) ==
  IF Len(key_list) = 0 THEN <<>>
  ELSE IF Len(key_list) = 1 THEN key_list[1]
  ELSE key_list[1] \o <<"_">> \o BuildKeyPath(Tail(key_list))
\* objectStore.get(key): the record with this key, or undefined
StoreGet(records, key) ==
  IF \E r \in records : r.key = key
  THEN CHOOSE r \in records : r.key = key
  ELSE NoDoc
\* objectStore.put(record): it replaces the record that has its key
StorePut(records, record) ==
  {r \in records : r.key # record.key} \cup {record}

\* An RSVP promise is settled by the first resolve or reject call made on
\* it; the calls that follow do nothing.
Pending == [state |-> "pending", value |-> NoDoc]
\* a promise that every resolve or reject call settles again
RsvpSettleOverwrites(promise, state, value) ==
  [state |-> state, value |-> value]
RsvpSettle(promise, state, value) ==
  IF promise.state = "pending" THEN [state |-> state, value |-> value]
  ELSE promise
\* new jIO.util.jIOError(message, status_code)
JIOError(status) == [tag |-> "error", status_code |-> status]
\* the event IndexedDB hands to request.onerror
RequestError == [tag |-> "event", status_code |-> 0]

\* handleGet(request): request.onerror = reject; request.onsuccess
\* resolves with request.result if there is one and then, in every case,
\* rejects with the 404 error.  failed: the request raised an error event.
HandleGet(result, failed) ==
  IF failed THEN RsvpSettle(Pending, "rejected", RequestError)
  ELSE LET found == IF result # NoDoc
                    THEN RsvpSettle(Pending, "fulfilled", result)
                    ELSE Pending
       IN RsvpSettle(found, "rejected", JIOError(404))

\* RSVP.all(promise_list) of settled promises, given in the order they
\* settled: rejected like the first rejected one, else fulfilled with the
\* list of values
RsvpAll(promise_list) ==
  LET bad == {i \in DOMAIN promise_list : promise_list[i].state = "rejected"}
  IN IF bad # {}
     THEN promise_list[CHOOSE i \in bad : \A j \in bad : i <= j]
     ELSE [state |-> "fulfilled",
           value |-> [i \in DOMAIN promise_list |-> promise_list[i].value]]

\* IndexedDBStorage.prototype.get: the promise it returns, once settled.
\* The cursor on the attachment store is opened without a key range:
\* addEntry sees the records of every document.
StorageGet(st, id, failed) ==
  LET attachment_dict == {r.name : r \in st.attachment}
      all == RsvpAll(<<HandleGet(StoreGet(st.metadata, id), failed),
                       [state |-> "fulfilled", value |-> NoDoc]>>)
  IN IF all.state = "rejected" THEN all
     ELSE [state |-> "fulfilled",
           value |-> [doc |-> all.value[1].doc, attachments |-> attachment_dict]]

\* IndexedDBStorage.prototype.put
StoragePut(st, metadata) ==
  [st EXCEPT !.metadata = StorePut(@, [key |-> metadata.id, doc |-> metadata])]

\* array_buffer.slice(from, to) and blob.slice(from, to): offsets past the
\* end are the end
Slice(bytes, from, to) ==
  LET last == IF to > Len(bytes) THEN Len(bytes) ELSE to
  IN IF from >= last THEN <<>> ELSE [i \in 1..(last - from) |-> bytes[from + i]]
\* while (handled_size < total_size) { blob_part.push(array_buffer.slice(
\* handled_size, handled_size + UNITE)); handled_size += UNITE; }
RECURSIVE BlobParts(_, _)
BlobParts(bytes, handled_size) ==
  IF handled_size < Len(bytes)
  THEN <<Slice(bytes, handled_size, handled_size + UNITE)>>
         \o BlobParts(bytes, handled_size + UNITE)
  ELSE <<>>
\* the character string of a part's index
IndexKey(i) == <<ToString(i)>>

\* removeAttachment(transaction, param): the attachment record of the key
\* is deleted; the cursor on the blob store is opened without a key range
\* and deleteEntry is called on every record it visits
RemoveAttachment(st, id, name) ==
  [st EXCEPT !.attachment = {r \in @ : r.key # BuildKeyPath(<<id, name>>)},
             !.blob = {}]

\* IndexedDBStorage.prototype.putAttachment
StoragePutAttachment(st, id, name, bytes) ==
  LET blob_part == BlobParts(bytes, 0)
      st0 == RemoveAttachment(st, id, name)
      info == [key |-> BuildKeyPath(<<id, name>>), id |-> id, name |-> name,
               length |-> Len(bytes)]
      parts == {[key |-> BuildKeyPath(<<id, name, IndexKey(i - 1)>>), id |-> id,
                 name |-> name, part |-> i - 1, blob |-> blob_part[i]] :
                  i \in DOMAIN blob_part}
  IN [st0 EXCEPT !.attachment = StorePut(@, info),
                 !.blob = {r \in @ : \A q \in parts : q.key # r.key} \cup parts]

\* the bytes of new Blob(array_buffer_list)
RECURSIVE Concat(_)
Concat(list) == IF list = <<>> THEN <<>> ELSE Head(list) \o Concat(Tail(list))
\* x || y for a number x
OrElse(x, y) == IF x = 0 THEN y ELSE x

\* getAttachment that reads the part at Math.floor(end / UNITE) also when
\* end is a multiple of UNITE
StorageGetAttachmentReadsOn(st, id, name, pstart, pend) ==
  LET attachment == HandleGet(StoreGet(st.attachment, BuildKeyPath(<<id, name>>)),
                              FALSE)
  IN IF attachment.state = "rejected" THEN attachment
     ELSE
     LET total_length == attachment.value.length
         start == OrElse(pstart, 0)
         end0 == OrElse(pend, total_length)
         end == IF end0 > total_length THEN total_length ELSE end0
         start_index == start \div UNITE
         end_index == end \div UNITE
         all == RsvpAll([k \in 1..(end_index - start_index + 1) |->
                  HandleGet(StoreGet(st.blob,
                              BuildKeyPath(<<id, name,
                                             IndexKey(start_index + k - 1)>>)),
                            FALSE)])
     IN IF start < 0 \/ end < 0 \/ start > end
        THEN [state |-> "rejected", value |-> JIOError(400)]
        ELSE IF all.state = "rejected" THEN all
        ELSE [state |-> "fulfilled",
              value |-> Slice(Concat([k \in DOMAIN all.value |->
                                        all.value[k].blob]), start, end)]

\* IndexedDBStorage.prototype.getAttachment, with param._start = pstart
\* and param._end = pend (0 also when the property is absent)
StorageGetAttachment(st, id, name, pstart, pend) ==
  LET attachment == HandleGet(StoreGet(st.attachment, BuildKeyPath(<<id, name>>)),
                              FALSE)
  IN IF attachment.state = "rejected" THEN attachment
     ELSE
     LET total_length == attachment.value.length
         start == OrElse(pstart, 0)
         end0 == OrElse(pend, total_length)
         end == IF end0 > total_length THEN total_length ELSE end0
         start_index == start \div UNITE
         end_index == IF end % UNITE = 0 THEN (end \div UNITE) - 1
                      ELSE end \div UNITE
         all == RsvpAll([k \in 1..(end_index - start_index + 1) |->
                  HandleGet(StoreGet(st.blob,
                              BuildKeyPath(<<id, name,
                                             IndexKey(start_index + k - 1)>>)),
                            FALSE)])
     IN IF start < 0 \/ end < 0 \/ start > end
        THEN [state |-> "rejected", value |-> JIOError(400)]
        ELSE IF all.state = "rejected" THEN all
        ELSE [state |-> "fulfilled",
              value |-> Slice(Concat([k \in DOMAIN all.value |->
                                        all.value[k].blob]), start, end)]

\* the world the operations transform
\* ------------------------------------------------------------ CryptStorage
\* src/src/jio.storage/cryptstorage.js.  putAttachment and getAttachment
\* are chains of callbacks (RSVP.Queue): each callback runs to completion
\* in a turn of its own, once the one before it in the chain has an
\* outcome, and the callbacks of concurrent calls interleave.  A call is
\* known by its position in calls; pc names the callback it runs next.
JsonKey == V("jwk", 0)
\* the CryptoKey object that the import started by call c produces
CryptoKey(c) == V("CryptoKey", c)
\* function CryptStorage(spec)
NewCryptStorage == [key |-> JsonKey, jsonKey |-> TRUE, calls |-> <<>>]
CryptCall(op, pc) == [op |-> op, pc |-> pc]
Goto(w, c, pc) == [w EXCEPT !.crypt.calls[c].pc = pc]

\* convertKey, first callback: crypto.subtle.importKey("jwk", that._key,
\* ...).  The import of a value that is no JSON Web Key is rejected by the
\* platform, which ends the call with that failure.
ConvertKeyImport(w, c) ==
  LET k == w.crypt.key
  IN Goto(Log(w, Ev("call", "importKey", "crypt", c, 0, <<k>>, FALSE)), c,
          IF k = JsonKey THEN "assign" ELSE "failed")

\* convertKey, second callback: that._key = res; that._jsonKey = false
ConvertKeyAssign(w, c) ==
  Goto([w EXCEPT !.crypt.key = CryptoKey(c), !.crypt.jsonKey = FALSE], c,
       "read")

\* the callback that call c runs next.  encrypted: the blob the sub storage
\* answered getAttachment with has the MIME type of this storage.
CryptCallback(w, c, encrypted) ==
  LET call == w.crypt.calls[c] IN
  CASE call.pc = "fetch" -> Goto(w, c, IF encrypted THEN "check" ELSE "done")
    [] call.pc = "check" ->
         Goto(w, c, IF w.crypt.jsonKey = TRUE THEN "import" ELSE "read")
    [] call.pc = "import" -> ConvertKeyImport(w, c)
    [] call.pc = "assign" -> ConvertKeyAssign(w, c)
    [] call.pc = "read" -> Goto(w, c, "cipher")
    [] call.pc = "cipher" ->
         Goto(Log(w, Ev("call", IF call.op = "putAttachment" THEN "encrypt"
                                ELSE "decrypt",
                        "crypt", c, 0, <<w.crypt.key>>, FALSE)), c,
              CASE w.crypt.key = JsonKey -> "failed"
                [] call.op = "putAttachment" -> "store"
                [] OTHER -> "done")
    [] call.pc = "store" -> Goto(w, c, "done")
    [] OTHER -> w

World ==
  [promises |-> promises, tasks |-> tasks, uncaught |-> uncaught,
   trace |-> trace, combs |-> combs, timers |-> timers, clock |-> clock,
   stamps |-> stamps, store |-> store, crypt |-> crypt]

\* calling a user function: it is observed, then returns or raises (beh)
InvokeUser(w, cb, p, args, ctx, beh) ==
  [w |-> Log(w, Ev("inv", beh, ctx, p, cb.id, args, beh = "throw")),
   threw |-> beh = "throw",
   val |-> CASE beh = "throw" -> V("exc", cb.id)
             [] beh = "this" -> V("promise", p)
             [] beh = "next" -> V("promise", cb.next)
             [] OTHER -> V("ret", cb.id)]

\* ---------------------------------------------------------------- solver
\* resolve without the settled-state guard: a later call settles again
SolverResolveUnguarded(w, p, args) ==
  [w EXCEPT
     !.promises[p] = [state |-> "resolved", answers |-> Def(args),
                      onResolve |-> Undefined, onReject |-> Undefined,
                      onProgress |-> Undefined],
     !.tasks = Append(@, [p |-> p, array |-> w.promises[p].onResolve.v,
                          guarded |-> TRUE])]

\* createSolver().resolve: settle once, copy the queue, defer the dispatch
SolverResolve(w, p, args) ==
  IF w.promises[p].state \notin Settled
  THEN [w EXCEPT
          !.promises[p] = [state |-> "resolved", answers |-> Def(args),
                           onResolve |-> Undefined, onReject |-> Undefined,
                           onProgress |-> Undefined],
          !.tasks = Append(@, [p |-> p, array |-> w.promises[p].onResolve.v,
                               guarded |-> TRUE])]
  ELSE w

\* reject that calls the queued user functions before it returns
RECURSIVE InvokeNow(_, _, _, _, _)
InvokeNow(w, p, array, args, i) ==
  IF i > Len(array) THEN w
  ELSE InvokeNow(IF array[i].kind = "user"
                 THEN InvokeUser(w, array[i], p, args, "reject", "ret").w
                 ELSE w,
                 p, array, args, i + 1)

SolverRejectSync(w, p, args) ==
  IF w.promises[p].state \notin Settled
  THEN InvokeNow(
         [w EXCEPT
            !.promises[p] = [state |-> "rejected", answers |-> Def(args),
                             onResolve |-> Undefined, onReject |-> Undefined,
                             onProgress |-> Undefined],
            !.tasks = Append(@, [p |-> p, array |-> <<>>, guarded |-> TRUE])],
         p, w.promises[p].onReject.v, args, 1)
  ELSE w

\* reject that copies the success queue
SolverRejectWrongQueue(w, p, args) ==
  IF w.promises[p].state \notin Settled
  THEN [w EXCEPT
          !.promises[p] = [state |-> "rejected", answers |-> Def(args),
                           onResolve |-> Undefined, onReject |-> Undefined,
                           onProgress |-> Undefined],
          !.tasks = Append(@, [p |-> p, array |-> w.promises[p].onResolve.v,
                               guarded |-> TRUE])]
  ELSE w

\* reject that dispatches both queues
SolverRejectBothQueues(w, p, args) ==
  IF w.promises[p].state \notin Settled
  THEN [w EXCEPT
          !.promises[p] = [state |-> "rejected", answers |-> Def(args),
                           onResolve |-> Undefined, onReject |-> Undefined,
                           onProgress |-> Undefined],
          !.tasks = Append(@, [p |-> p,
                               array |-> w.promises[p].onReject.v
                                           \o w.promises[p].onResolve.v,
                               guarded |-> TRUE])]
  ELSE w

\* createSolver().reject
SolverReject(w, p, args) ==
  IF w.promises[p].state \notin Settled
  THEN [w EXCEPT
          !.promises[p] = [state |-> "rejected", answers |-> Def(args),
                           onResolve |-> Undefined, onReject |-> Undefined,
                           onProgress |-> Undefined],
          !.tasks = Append(@, [p |-> p, array |-> w.promises[p].onReject.v,
                               guarded |-> TRUE])]
  ELSE w

\* defer that refuses only a settled promise
DeferArmRunning(w, p) ==
  IF w.promises[p].state \in {"resolved", "rejected"}
  THEN [w |-> w, threw |-> TRUE, val |-> AlreadyError]
  ELSE [w |-> [w EXCEPT !.promises[p].state = "running"],
        threw |-> FALSE, val |-> V("undefined", 0)]

\* defer that hands out the solver without recording the arming
DeferArmUnrecorded(w, p) ==
  IF w.promises[p].state \in {"running", "resolved", "rejected"}
  THEN [w |-> w, threw |-> TRUE, val |-> AlreadyError]
  ELSE [w |-> w, threw |-> FALSE, val |-> V("undefined", 0)]

\* Promise.prototype.defer, the state switch and the arming:
\* the result is the world and whether the call raised
DeferArm(w, p) ==
  IF w.promises[p].state \in {"running", "resolved", "rejected"}
  THEN [w |-> w, threw |-> TRUE, val |-> AlreadyError]
  ELSE [w |-> [w EXCEPT !.promises[p].state = "running"],
        threw |-> FALSE, val |-> V("undefined", 0)]

\* ------------------------------------------------- combinator closures
\* The callbacks all and allOrNone hand to when.  They close over array,
\* count, items and solver of their call: combs[c] holds array, count and
\* items.length, and next, the promise solver belongs to.  A closure is
\* [kind, id |-> the index i, next |-> c].  array is shared by reference:
\* the value given to resolve is V("array", c).
Closure(kind, i, c) == [kind |-> kind, id |-> i, next |-> c]
\* function (answer): the first argument, undefined when there is none
Answer(args) == IF args = <<>> THEN V("undefined", 0) ELSE args[1]
\* the closure is observed when it is called
Observe(w, kind, c, i, args) ==
  Log(w, Ev("obs", kind, "task", w.combs[c].next, i, args, FALSE))

\* ---------------------------------------------------------------- timers
\* The host keeps a timer for every setTimeout(fn, d) and setInterval(fn,
\* e): due is the time it was made plus its delay.  The host runs what is
\* due in the order of the due times, and what is due at the same time in
\* the order it was made.  A closure scheduled without a delay is a task of
\* the queue; a timer of delay 0 is a task as well (queued), which calls fn
\* unless the timer was cleared meanwhile.
NewTimer(kind, fn, due, every, queued) ==
  [kind |-> kind, fn |-> fn, due |-> due, every |-> every, live |-> TRUE,
   queued |-> queued]
\* setTimeout(fn, d), called for promise p; the identifier it returns is
\* Len(timers) afterwards
SetTimeout(w, p, fn, d) ==
  LET id == Len(w.timers) + 1
      w1 == [w EXCEPT !.timers =
               Append(@, NewTimer("timeout", fn, w.clock + d, 0, d = 0))]
  IN IF d = 0
     THEN [w1 EXCEPT !.tasks = Append(@, [p |-> p,
                                          array |-> <<Closure("timer", id, 0)>>,
                                          guarded |-> FALSE])]
     ELSE w1
\* setInterval(fn, every) with every > 0
SetInterval(w, fn, every) ==
  [w EXCEPT !.timers = Append(@, NewTimer("interval", fn, w.clock + every, every,
                                      FALSE))]
\* clearTimeout(id) and clearInterval(id); id = 0 is undefined: no effect
ClearTimer(w, id) ==
  IF id \in DOMAIN w.timers THEN [w EXCEPT !.timers[id].live = FALSE] ELSE w
\* the timers the host still has to run from its timer list
Waiting(ts) == {id \in DOMAIN ts : ts[id].live /\ ~ts[id].queued}
\* a timer of the list runs before a task queued at time stamp
TimerBefore(stamp) == \E id \in Waiting(timers) : timers[id].due <= stamp

\* The closure variables of a delay or timeout call: timeout, every, now
\* and ident (delay), i (timeout, kept in ident), and next.
TimedComb(kind, next, timeout, every) ==
  [kind |-> kind, n |-> 0, array |-> <<>>, count |-> 0, next |-> next,
   timeout |-> timeout, every |-> every, now |-> 0, ident |-> 0]
\* new Error("Timeout")
TimeoutError == V("error", 0)

\* Promise.first: solver.resolve and solver.reject, handed to when
FirstSucceed(w, c, i, args) ==
  LET next == w.combs[c].next
  IN SolverResolve(Log(Observe(w, "firstS", c, i, args),
                       Ev("call", "resolve", "first", next, 0, args, FALSE)),
                   next, args)
\* first whose result waits for a success: a failure is observed only
FirstFailIsIgnored(w, c, i, args) == Observe(w, "firstF", c, i, args)
FirstFail(w, c, i, args) ==
  LET next == w.combs[c].next
  IN SolverReject(Log(Observe(w, "firstF", c, i, args),
                      Ev("call", "reject", "first", next, 0, args, FALSE)),
                  next, args)

\* Promise.delay: function () { clearInterval(ident);
\* solver.resolve(timeout); }
DelayEnd(w, c) ==
  LET next == w.combs[c].next
      a == <<V("val", w.combs[c].timeout)>>
  IN SolverResolve(Log(ClearTimer(Observe(w, "delayEnd", c, 0, <<>>),
                                  w.combs[c].ident),
                       Ev("call", "resolve", "delay", next, 0, a, FALSE)),
                   next, a)

\* a timer of timeout that runs without rejecting
TimeoutFireIsSilent(w, c) == Observe(w, "timeoutFire", c, 0, <<>>)
\* Promise.timeout: function () { solver.reject.apply(next, [new
\* Error("Timeout")]); }
TimeoutFire(w, c) ==
  LET next == w.combs[c].next
  IN SolverReject(Log(Observe(w, "timeoutFire", c, 0, <<>>),
                      Ev("call", "reject", "timeout", next, 0,
                         <<TimeoutError>>, FALSE)),
                  next, <<TimeoutError>>)

\* Promise.timeout: function () { clearTimeout(i);
\* solver.resolve.apply(next, arguments); }
TimeoutSucceed(w, c, i, args) ==
  LET next == w.combs[c].next
  IN SolverResolve(Log(ClearTimer(Observe(w, "timeoutS", c, i, args),
                                  w.combs[c].ident),
                       Ev("call", "resolve", "timeout", next, 0, args, FALSE)),
                   next, args)
\* Promise.timeout: function () { clearTimeout(i);
\* solver.reject.apply(next, arguments); }
TimeoutFail(w, c, i, args) ==
  LET next == w.combs[c].next
  IN SolverReject(Log(ClearTimer(Observe(w, "timeoutF", c, i, args),
                                 w.combs[c].ident),
                      Ev("call", "reject", "timeout", next, 0, args, FALSE)),
                  next, args)

\* the function of a timer that runs from the task queue or the timer
\* list; the tick of an interval is DelayTick below
TimerFn(w, fn) ==
  CASE fn.kind = "delayEnd" -> DelayEnd(w, fn.next)
    [] fn.kind = "timeoutFire" -> TimeoutFire(w, fn.next)
    [] OTHER -> w
\* the task of a timer of delay 0: nothing if the timer was cleared
QueuedTimer(w, id) ==
  IF w.timers[id].live
  THEN TimerFn([w EXCEPT !.timers[id].live = FALSE], w.timers[id].fn)
  ELSE w

\* Promise.all: succeed(i), used for both outcomes of item i
Succeed(w, c, i, args) ==
  LET w1 == [Observe(w, "allS", c, i, args) EXCEPT
               !.combs[c].array[i] = Def(Answer(args)),
               !.combs[c].count = @ + 1]
      next == w.combs[c].next
  IN IF w1.combs[c].count # w1.combs[c].n THEN w1
     ELSE SolverResolve(Log(w1, Ev("call", "resolve", "all", next, 0,
                                   <<V("array", c)>>, FALSE)),
                        next, <<V("array", c)>>)

\* the success callback of allOrNone that appends the answer instead of
\* writing it at index i
AllOrNoneSucceedAppends(w, c, i, args) ==
  LET w1 == [Observe(w, "aonS", c, i, args) EXCEPT
               !.combs[c].array[w.combs[c].count + 1] = Def(Answer(args)),
               !.combs[c].count = @ + 1]
      next == w.combs[c].next
  IN IF w1.combs[c].count # w1.combs[c].n THEN w1
     ELSE SolverResolve(Log(w1, Ev("call", "resolve", "allOrNone", next, 0,
                                   <<V("array", c)>>, FALSE)),
                        next, <<V("array", c)>>)

\* Promise.allOrNone: the success callback of item i
AllOrNoneSucceed(w, c, i, args) ==
  LET w1 == [Observe(w, "aonS", c, i, args) EXCEPT
               !.combs[c].array[i] = Def(Answer(args)),
               !.combs[c].count = @ + 1]
      next == w.combs[c].next
  IN IF w1.combs[c].count # w1.combs[c].n THEN w1
     ELSE SolverResolve(Log(w1, Ev("call", "resolve", "allOrNone", next, 0,
                                   <<V("array", c)>>, FALSE)),
                        next, <<V("array", c)>>)

\* the error callback of allOrNone that counts a failure as an answer
AllOrNoneFailCounts(w, c, i, args) ==
  LET w1 == [Observe(w, "aonF", c, i, args) EXCEPT
               !.combs[c].array[i] = Def(Answer(args)),
               !.combs[c].count = @ + 1]
      next == w.combs[c].next
  IN IF w1.combs[c].count # w1.combs[c].n THEN w1
     ELSE SolverResolve(Log(w1, Ev("call", "resolve", "allOrNone", next, 0,
                                   <<V("array", c)>>, FALSE)),
                        next, <<V("array", c)>>)

\* Promise.allOrNone: the error callback of item i
AllOrNoneFail(w, c, i, args) ==
  LET w1 == Observe(w, "aonF", c, i, args)
      next == w.combs[c].next
  IN SolverReject(Log(w1, Ev("call", "reject", "allOrNone", next, 0,
                             <<Answer(args)>>, FALSE)),
                  next, <<Answer(args)>>)

\* Promise.any: solver.resolve, handed to when as the success callback
AnySucceed(w, c, i, args) ==
  LET next == w.combs[c].next
  IN SolverResolve(Log(Observe(w, "anyS", c, i, args),
                       Ev("call", "resolve", "any", next, 0, args, FALSE)),
                   next, args)

\* onError of any that rejects without counting
AnyFailAtOnce(w, c, i, args) ==
  LET next == w.combs[c].next
  IN SolverReject(Log(Observe(w, "anyF", c, i, args),
                      Ev("call", "reject", "any", next, 0, <<Answer(args)>>,
                         FALSE)),
                  next, <<Answer(args)>>)

\* onError of any that tests count before it adds one
AnyFailTestsFirst(w, c, i, args) ==
  LET w1 == [Observe(w, "anyF", c, i, args) EXCEPT !.combs[c].count = @ + 1]
      next == w.combs[c].next
  IN IF w.combs[c].count # w.combs[c].n THEN w1
     ELSE SolverReject(Log(w1, Ev("call", "reject", "any", next, 0,
                                  <<Answer(args)>>, FALSE)),
                       next, <<Answer(args)>>)

\* Promise.any: onError
AnyFail(w, c, i, args) ==
  LET w1 == [Observe(w, "anyF", c, i, args) EXCEPT !.combs[c].count = @ + 1]
      next == w.combs[c].next
  IN IF w1.combs[c].count # w1.combs[c].n THEN w1
     ELSE SolverReject(Log(w1, Ev("call", "reject", "any", next, 0,
                                  <<Answer(args)>>, FALSE)),
                       next, <<Answer(args)>>)

\* Promise.execute: solver.resolve and solver.reject, handed to when
ExecuteSucceed(w, c, i, args) ==
  LET next == w.combs[c].next
  IN SolverResolve(Log(Observe(w, "exS", c, i, args),
                       Ev("call", "resolve", "execute", next, 0, args, FALSE)),
                   next, args)
ExecuteFail(w, c, i, args) ==
  LET next == w.combs[c].next
  IN SolverReject(Log(Observe(w, "exF", c, i, args),
                      Ev("call", "reject", "execute", next, 0, args, FALSE)),
                  next, args)

\* ------------------------------------------------------------ invocation
\* the wrapper of a chain that passes a failure on: what the handler of a
\* rejected promise returns rejects next
DeferAndSettleRepropagates(w, h, next, p, args, ctx, beh) ==
  LET d == DeferArm(Log(w, Ev("call", "defer", ctx, next, 0, <<>>, FALSE)), next)
  IN
  IF d.threw THEN d
  ELSE LET r == InvokeUser(d.w, h, p, args, ctx, beh) IN
       [w |-> IF r.threw \/ r.w.promises[p].state = "rejected"
              THEN SolverReject(
                     Log(r.w, Ev("call", "reject", ctx, next, 0, <<r.val>>, FALSE)),
                     next, <<r.val>>)
              ELSE SolverResolve(
                     Log(r.w, Ev("call", "resolve", ctx, next, 0, <<r.val>>, FALSE)),
                     next, <<r.val>>),
        threw |-> FALSE, val |-> V("undefined", 0)]

\* the wrapper without its catch: a raised exception leaves next running
DeferAndSettleNoCatch(w, h, next, p, args, ctx, beh) ==
  LET d == DeferArm(Log(w, Ev("call", "defer", ctx, next, 0, <<>>, FALSE)), next)
  IN
  IF d.threw THEN d
  ELSE LET r == InvokeUser(d.w, h, p, args, ctx, beh) IN
       IF r.threw THEN r
       ELSE [w |-> SolverResolve(
                     Log(r.w, Ev("call", "resolve", ctx, next, 0, <<r.val>>, FALSE)),
                     next, <<r.val>>),
             threw |-> FALSE, val |-> V("undefined", 0)]

\* the wrapper of a chain that flattens: a promise returned by the handler
\* is not stored, next takes its outcome once it has one
DeferAndSettleFlattens(w, h, next, p, args, ctx, beh) ==
  LET d == DeferArm(Log(w, Ev("call", "defer", ctx, next, 0, <<>>, FALSE)), next)
  IN
  IF d.threw THEN d
  ELSE LET r == InvokeUser(d.w, h, p, args, ctx, beh)
           f == IF r.val.tag = "promise" THEN r.val.n ELSE 0
           a == IF f = 0 THEN <<r.val>> ELSE r.w.promises[f].answers.v
       IN
       [w |-> CASE r.threw \/ (f # 0 /\ r.w.promises[f].state = "rejected") ->
                     SolverReject(
                       Log(r.w, Ev("call", "reject", ctx, next, 0,
                                   IF r.threw THEN <<r.val>> ELSE a, FALSE)),
                       next, IF r.threw THEN <<r.val>> ELSE a)
                [] f # 0 /\ r.w.promises[f].state # "resolved" -> r.w
                [] OTHER ->
                     SolverResolve(
                       Log(r.w, Ev("call", "resolve", ctx, next, 0, a, FALSE)),
                       next, a),
        threw |-> FALSE, val |-> V("undefined", 0)]

\* next.defer(function (resolver) { try { resolver.resolve(h.apply(that,
\* answers)); } catch (e) { resolver.reject(e); } })
DeferAndSettle(w, h, next, p, args, ctx, beh) ==
  LET d == DeferArm(Log(w, Ev("call", "defer", ctx, next, 0, <<>>, FALSE)), next)
  IN
  IF d.threw THEN d
  ELSE LET r == InvokeUser(d.w, h, p, args, ctx, beh) IN
       [w |-> IF r.threw
              THEN SolverReject(
                     Log(r.w, Ev("call", "reject", ctx, next, 0, <<r.val>>, FALSE)),
                     next, <<r.val>>)
              ELSE SolverResolve(
                     Log(r.w, Ev("call", "resolve", ctx, next, 0, <<r.val>>, FALSE)),
                     next, <<r.val>>),
        threw |-> FALSE, val |-> V("undefined", 0)]

\* cb.apply(that, args) for any queued function
Invoke(w, cb, p, args, ctx, beh) ==
  LET done(x) == [w |-> x, threw |-> FALSE, val |-> V("undefined", 0)] IN
  CASE cb.kind = "then" ->
         DeferAndSettle(w, [UserCb(cb.id) EXCEPT !.next = cb.next], cb.next, p,
                        args, ctx, beh)
    [] cb.kind = "allS" -> done(Succeed(w, cb.next, cb.id, args))
    [] cb.kind = "aonS" -> done(AllOrNoneSucceed(w, cb.next, cb.id, args))
    [] cb.kind = "aonF" -> done(AllOrNoneFail(w, cb.next, cb.id, args))
    [] cb.kind = "anyS" -> done(AnySucceed(w, cb.next, cb.id, args))
    [] cb.kind = "anyF" -> done(AnyFail(w, cb.next, cb.id, args))
    [] cb.kind = "exS" -> done(ExecuteSucceed(w, cb.next, cb.id, args))
    [] cb.kind = "exF" -> done(ExecuteFail(w, cb.next, cb.id, args))
    [] cb.kind = "firstS" -> done(FirstSucceed(w, cb.next, cb.id, args))
    [] cb.kind = "firstF" -> done(FirstFail(w, cb.next, cb.id, args))
    [] cb.kind = "timeoutS" -> done(TimeoutSucceed(w, cb.next, cb.id, args))
    [] cb.kind = "timeoutF" -> done(TimeoutFail(w, cb.next, cb.id, args))
    [] cb.kind = "timer" -> done(QueuedTimer(w, cb.id))
    [] OTHER -> InvokeUser(w, cb, p, args, ctx, beh)

\* a dispatch whose loop ends at the first function that raises
RECURSIVE RunArrayStopsAtRaise(_, _, _, _, _, _)
RunArrayStopsAtRaise(w, p, array, i, guarded, behs) ==
  IF i > Len(array) THEN w
  ELSE LET r == Invoke(w, array[i], p, w.promises[p].answers.v, "task",
                       behs[i])
       IN IF r.threw
          THEN [r.w EXCEPT !.uncaught = IF guarded THEN @ ELSE @ + 1]
          ELSE RunArrayStopsAtRaise(r.w, p, array, i + 1, guarded, behs)

\* the loop of a host task over its copied array.  A settlement dispatch
\* wraps every call in try / catch (ignore); the closure that done, fail
\* and always schedule on a settled promise has no try / catch.
\* behs[i] is what the user function called at array[i] does.
RECURSIVE RunArray(_, _, _, _, _, _)
RunArray(w, p, array, i, guarded, behs) ==
  IF i > Len(array) THEN w
  ELSE LET r == Invoke(w, array[i], p, w.promises[p].answers.v, "task",
                       behs[i])
       IN IF r.threw /\ ~guarded
          THEN [r.w EXCEPT !.uncaught = @ + 1]
          ELSE RunArray(r.w, p, array, i + 1, guarded, behs)

\* -------------------------------------------------------------- then
\* then that passes the outcome of a settled source on to the new promise
\* when the handler for it is missing
ThenPassesOn(w, p, onSuccess, onError, onProgress, next, beh) ==
  LET w0 == [w EXCEPT !.promises = Append(@, NewPromiseObject)]
      ok(x) == [w |-> x, threw |-> FALSE, val |-> V("promise", next)]
      a == w0.promises[p].answers.v
  IN
  CASE w0.promises[p].state = "resolved" ->
         IF IsFunction(onSuccess)
         THEN ok(DeferAndSettle(w0, onSuccess, next, p, a, "then", beh).w)
         ELSE ok(SolverResolve(DeferArm(w0, next).w, next, a))
    [] w0.promises[p].state = "rejected" ->
         IF IsFunction(onError)
         THEN ok(DeferAndSettle(w0, onError, next, p, a, "then", beh).w)
         ELSE ok(SolverReject(DeferArm(w0, next).w, next, a))
    [] OTHER -> ok(w0)

\* Promise.prototype.then; next is the identity of the new Promise()
Then(w, p, onSuccess, onError, onProgress, next, beh) ==
  LET w0 == [w EXCEPT !.promises = Append(@, NewPromiseObject)]
      ok(x) == [w |-> x, threw |-> FALSE, val |-> V("promise", next)]
  IN
  CASE w0.promises[p].state = "resolved" ->
         IF IsFunction(onSuccess)
         THEN LET r == DeferAndSettle(w0, onSuccess, next, p,
                                      w0.promises[p].answers.v, "then", beh)
              IN IF r.threw THEN r ELSE ok(r.w)
         ELSE ok(w0)
    [] w0.promises[p].state = "rejected" ->
         IF IsFunction(onError)
         THEN LET r == DeferAndSettle(w0, onError, next, p,
                                      w0.promises[p].answers.v, "then", beh)
              IN IF r.threw THEN r ELSE ok(r.w)
         ELSE ok(w0)
    [] OTHER ->
         LET w1 == IF IsFunction(onSuccess)
                   THEN [w0 EXCEPT !.promises[p].onResolve.v =
                           Append(@, ThenWrapper(onSuccess, next))]
                   ELSE w0
             w2 == IF IsFunction(onError)
                   THEN [w1 EXCEPT !.promises[p].onReject.v =
                           Append(@, ThenWrapper(onError, next))]
                   ELSE w1
             w3 == IF IsFunction(onProgress)
                   THEN [w2 EXCEPT !.promises[p].onProgress.v =
                           Append(@, onProgress)]
                   ELSE w2
         IN ok(w3)

\* ------------------------------------------------- attachment operators
\* setTimeout(function () { callback.apply(that, that._answers); })
Schedule(w, p, callback) ==
  [w EXCEPT !.tasks = Append(@, [p |-> p, array |-> <<callback>>,
                                 guarded |-> FALSE])]

\* done that ignores a promise that is already resolved
DoneOnlyQueues(w, p, callback) ==
  IF ~IsFunction(callback) THEN w
  ELSE CASE w.promises[p].state \in {"resolved", "rejected"} -> w
         [] OTHER -> [w EXCEPT !.promises[p].onResolve.v = Append(@, callback)]

\* done without the typeof test
DoneUnchecked(w, p, callback) ==
  CASE w.promises[p].state = "resolved" -> Schedule(w, p, callback)
    [] w.promises[p].state = "rejected" -> w
    [] OTHER -> [w EXCEPT !.promises[p].onResolve.v = Append(@, callback)]

\* Promise.prototype.done
Done(w, p, callback) ==
  IF ~IsFunction(callback) THEN w
  ELSE CASE w.promises[p].state = "resolved" -> Schedule(w, p, callback)
         [] w.promises[p].state = "rejected" -> w
         [] OTHER -> [w EXCEPT !.promises[p].onResolve.v = Append(@, callback)]

\* Promise.prototype.fail
Fail(w, p, callback) ==
  IF ~IsFunction(callback) THEN w
  ELSE CASE w.promises[p].state = "rejected" -> Schedule(w, p, callback)
         [] w.promises[p].state = "resolved" -> w
         [] OTHER -> [w EXCEPT !.promises[p].onReject.v = Append(@, callback)]

\* Promise.prototype.progress
Progress(w, p, callback) ==
  IF ~IsFunction(callback) THEN w
  ELSE CASE w.promises[p].state \in {"rejected", "resolved"} -> w
         [] OTHER -> [w EXCEPT !.promises[p].onProgress.v = Append(@, callback)]

\* ---------------------------------------------------------------- notify
\* A progress observer is user code that runs inside notify: besides
\* returning or raising it may first call back into the library, either
\* that.progress(g) with a function g of its own or resolve on the solver.
ObserverBehaviours == Behaviours \cup {"progress", "resolve"}
\* the function g that observer cb registers; g itself only returns or raises
Nested(cb) == [kind |-> "user", id |-> -cb.id, next |-> 0]
ReEnters(cb) == cb.id > 0

\* that._onProgress[i].apply(that, arguments)
InvokeObserver(w, cb, p, args, beh) ==
  LET r == InvokeUser(w, cb, p, args, "notify",
                      IF beh = "throw" THEN "throw" ELSE "ret")
  IN CASE beh = "progress" ->
            [r EXCEPT !.w =
               Progress(Log(r.w, Ev("reg", "progress", "notify", p,
                                    Nested(cb).id, <<V("promise", 0)>>, FALSE)),
                        p, Nested(cb))]
       [] beh = "resolve" ->
            [r EXCEPT !.w =
               SolverResolve(Log(r.w, Ev("call", "resolve", "notify", p, 0,
                                         <<r.val>>, FALSE)),
                             p, <<r.val>>)]
       [] OTHER -> r

\* createSolver().notify: the loop reads that._onProgress.length before
\* every iteration, outside the try / catch; behs[i] is what the observer
\* at position i does, an observer registered during the loop returns
RECURSIVE NotifyLoop(_, _, _, _, _)
NotifyLoop(w, p, args, i, behs) ==
  IF ~w.promises[p].onProgress.def
  THEN [w |-> w, threw |-> TRUE, val |-> TypeError]
  ELSE IF i > Len(w.promises[p].onProgress.v)
  THEN [w |-> w, threw |-> FALSE, val |-> V("undefined", 0)]
  ELSE NotifyLoop(
         InvokeObserver(w, w.promises[p].onProgress.v[i], p, args,
                        IF i \in DOMAIN behs THEN behs[i] ELSE "ret").w,
         p, args, i + 1, behs)

SolverNotify(w, p, args, behs) ==
  IF w.promises[p].onProgress.def
  THEN NotifyLoop(w, p, args, 1, behs)
  ELSE [w |-> w, threw |-> FALSE, val |-> V("undefined", 0)]

\* always that puts the callback at the head of both queues
AlwaysUnshift(w, p, callback) ==
  IF ~IsFunction(callback) THEN w
  ELSE CASE w.promises[p].state \in {"resolved", "rejected"} ->
              Schedule(w, p, callback)
         [] OTHER -> [w EXCEPT !.promises[p].onReject.v = <<callback>> \o @,
                               !.promises[p].onResolve.v = <<callback>> \o @]

\* Promise.prototype.always
Always(w, p, callback) ==
  IF ~IsFunction(callback) THEN w
  ELSE CASE w.promises[p].state \in {"resolved", "rejected"} ->
              Schedule(w, p, callback)
         [] OTHER -> [w EXCEPT !.promises[p].onReject.v = Append(@, callback),
                               !.promises[p].onResolve.v = Append(@, callback)]

\* ----------------------------------------------------------- combinators
\* An item is a Promise V("promise", k), a Deferred V("deferred", k), whose
\* promise() is promise k, or any other value.
IsPromise(item) == item.tag = "promise"
IsDeferred(item) == item.tag = "deferred"
\* new Promise().done(onSuccess).fail(onError).progress(onProgress), then
\* p.defer().resolve(item)
WhenValue(w, item, onSuccess, onError, onProgress) ==
  LET p == Len(w.promises) + 1
      w0 == [w EXCEPT !.promises = Append(@, NewPromiseObject)]
      w1 == Progress(Fail(Done(w0, p, onSuccess), p, onError), p, onProgress)
      d == DeferArm(Log(w1, Ev("call", "defer", "when", p, 0, <<>>, FALSE)), p)
  IN [w |-> SolverResolve(Log(d.w, Ev("call", "resolve", "when", p, 0,
                                      <<item>>, FALSE)), p, <<item>>),
      val |-> V("promise", p)]

\* when without the instanceof tests
WhenWrapsPromise(w, item, onSuccess, onError, onProgress) ==
  WhenValue(w, item, onSuccess, onError, onProgress)

\* Promise.when
When(w, item, onSuccess, onError, onProgress) ==
  IF IsPromise(item) \/ IsDeferred(item)
  THEN [w |-> Progress(Fail(Done(w, item.n, onSuccess), item.n, onError),
                       item.n, onProgress),
        val |-> V("promise", item.n)]
  ELSE WhenValue(w, item, onSuccess, onError, onProgress)

\* the closure variables of a call: array = [], count = 0, and next
NewComb(kind, items, next) ==
  [kind |-> kind, n |-> Len(items), array |-> [i \in 1..Len(items) |-> Undefined],
   count |-> 0, next |-> next]

\* var next = new Promise(), solver = next.defer()
NewNext(w, kind, items) ==
  LET next == Len(w.promises) + 1
      w0 == [w EXCEPT !.promises = Append(@, NewPromiseObject),
                      !.combs = Append(@, NewComb(kind, items, next))]
  IN DeferArm(Log(w0, Ev("call", "defer", kind, next, 0, <<>>, FALSE)), next).w

\* the loop over items: when(items[i], onSuccess(i), onError(i)), from i on
RECURSIVE WhenEach(_, _, _, _, _, _)
WhenEach(w, items, i, c, onSuccess, onError) ==
  IF i > Len(items) THEN w
  ELSE WhenEach(When(w, items[i], Closure(onSuccess, i, c),
                     Closure(onError, i, c), NoCb).w,
                items, i + 1, c, onSuccess, onError)

\* all that answers a list without items at once, with the empty array
AllResolvesEmpty(w, items) ==
  LET c == Len(w.combs) + 1
      w0 == NewNext(w, "all", items)
      next == w0.combs[c].next
  IN [w |-> IF items = <<>>
            THEN SolverResolve(Log(w0, Ev("call", "resolve", "all", next, 0,
                                          <<V("array", c)>>, FALSE)),
                               next, <<V("array", c)>>)
            ELSE WhenEach(w0, items, 1, c, "allS", "allS"),
      val |-> V("promise", next)]

\* Promise.all
All(w, items) ==
  LET c == Len(w.combs) + 1
      w0 == NewNext(w, "all", items)
  IN [w |-> WhenEach(w0, items, 1, c, "allS", "allS"),
      val |-> V("promise", w0.combs[c].next)]

\* Promise.allOrNone
AllOrNone(w, items) ==
  LET c == Len(w.combs) + 1
      w0 == NewNext(w, "allOrNone", items)
  IN [w |-> WhenEach(w0, items, 1, c, "aonS", "aonF"),
      val |-> V("promise", w0.combs[c].next)]

\* Promise.any
PromiseAny(w, items) ==
  LET c == Len(w.combs) + 1
      w0 == NewNext(w, "any", items)
  IN [w |-> WhenEach(w0, items, 1, c, "anyS", "anyF"),
      val |-> V("promise", w0.combs[c].next)]

\* What callback() does in execute: it raises, or it returns item.
Raises == V("raise", 0)
\* callback() was called and returned item, or raised the exception item
Returns(w, next, callback, item, threw) ==
  Log(w, Ev("returned", "execute", "main", next, callback.id, <<item>>, threw))

\* execute that resolves with what callback returned
ExecuteNoWhen(w, callback, item) ==
  LET c == Len(w.combs) + 1
      w0 == NewNext(w, "execute", <<>>)
      next == w0.combs[c].next
      exc == V("exc", callback.id)
  IN [w |-> IF item = Raises
            THEN SolverReject(Log(Returns(w0, next, callback, exc, TRUE),
                                  Ev("call", "reject", "execute", next, 0,
                                     <<exc>>, FALSE)), next, <<exc>>)
            ELSE SolverResolve(Log(Returns(w0, next, callback, item, FALSE),
                                   Ev("call", "resolve", "execute", next, 0,
                                      <<item>>, FALSE)), next, <<item>>),
      val |-> V("promise", next)]

\* Promise.execute
Execute(w, callback, item) ==
  LET c == Len(w.combs) + 1
      w0 == NewNext(w, "execute", <<>>)
      next == w0.combs[c].next
      exc == V("exc", callback.id)
  IN [w |-> IF item = Raises
            THEN SolverReject(Log(Returns(w0, next, callback, exc, TRUE),
                                  Ev("call", "reject", "execute", next, 0,
                                     <<exc>>, FALSE)), next, <<exc>>)
            ELSE When(Returns(w0, next, callback, item, FALSE), item,
                      Closure("exS", 1, c), Closure("exF", 1, c), NoCb).w,
      val |-> V("promise", next)]

\* Promise.first
First(w, items) ==
  LET c == Len(w.combs) + 1
      w0 == NewNext(w, "first", items)
  IN [w |-> WhenEach(w0, items, 1, c, "firstS", "firstF"),
      val |-> V("promise", w0.combs[c].next)]

\* every of a delay call that passes no number
NoEvery == 0
\* var next = new Promise(), solver, ident / i, now = 0; solver =
\* next.defer()
NewTimed(w, kind, timeout, every) ==
  LET next == Len(w.promises) + 1
      w0 == [w EXCEPT !.promises = Append(@, NewPromiseObject),
                      !.combs = Append(@, TimedComb(kind, next, timeout, every))]
  IN DeferArm(Log(w0, Ev("call", "defer", kind, next, 0, <<>>, FALSE)), next).w

\* delay that leaves the interval running when it resolves
DelayKeepsInterval(w, timeout, every) ==
  LET c == Len(w.combs) + 1
      w0 == NewTimed(w, "delay", timeout, every)
      next == w0.combs[c].next
      w1 == IF every = NoEvery THEN w0
            ELSE SetInterval(w0, Closure("delayTick", 0, c), every)
  IN [w |-> SetTimeout(w1, next, Closure("delayEnd", 0, c), timeout),
      val |-> V("promise", next)]

\* Promise.delay
Delay(w, timeout, every) ==
  LET c == Len(w.combs) + 1
      w0 == NewTimed(w, "delay", timeout, every)
      next == w0.combs[c].next
      w1 == IF every = NoEvery THEN w0
            ELSE [SetInterval(w0, Closure("delayTick", 0, c), every) EXCEPT
                    !.combs[c].ident = Len(w0.timers) + 1]
  IN [w |-> SetTimeout(w1, next, Closure("delayEnd", 0, c), timeout),
      val |-> V("promise", next)]

\* the tick of delay that notifies every instead of the elapsed time
DelayTickSameValue(w, c, behs) ==
  LET next == w.combs[c].next
      w1 == Observe(w, "delayTick", c, 0, <<>>)
      a == <<V("val", w.combs[c].every)>>
  IN SolverNotify(Log(w1, Ev("call", "notify", "delay", next, 0, a, FALSE)),
                  next, a, behs).w

\* Promise.delay: function () { now += every; solver.notify(now); }
\* behs[i] is what the progress observer at position i does
DelayTick(w, c, behs) ==
  LET next == w.combs[c].next
      w1 == [Observe(w, "delayTick", c, 0, <<>>) EXCEPT
               !.combs[c].now = @ + w.combs[c].every]
      a == <<V("val", w1.combs[c].now)>>
  IN SolverNotify(Log(w1, Ev("call", "notify", "delay", next, 0, a, FALSE)),
                  next, a, behs).w

\* Promise.timeout
Timeout(w, item, timeout) ==
  LET c == Len(w.combs) + 1
      w0 == NewTimed(w, "timeout", timeout, NoEvery)
      next == w0.combs[c].next
      w1 == [SetTimeout(w0, next, Closure("timeoutFire", 0, c), timeout) EXCEPT
               !.combs[c].ident = Len(w0.timers) + 1]
  IN [w |-> When(w1, item, Closure("timeoutS", 1, c), Closure("timeoutF", 1, c),
                 NoCb).w,
      val |-> V("promise", next)]

\* --------------------------------------------------------------- actions
Promises == 1..Len(promises)
\* what user code may pass where a callback is expected
Callbacks(id) == {NoCb, UserCb(id)}

\* the argument lists user code passes to then: no function, a success
\* handler, an error handler, and all three handlers
ThenArgs(id) ==
  {<<NoCb, NoCb, NoCb>>, <<UserCb(id + 1), NoCb, NoCb>>,
   <<NoCb, UserCb(id + 1), NoCb>>,
   <<UserCb(id + 1), UserCb(id + 2), UserCb(id + 3)>>}
\* what each of the functions of array does when a host task calls it;
\* returned is what a then handler may return besides a plain value
BehaviourLists(array, returned) ==
  {behs \in [DOMAIN array -> Behaviours \cup returned] :
     \A i \in DOMAIN array :
       CASE array[i].kind = "then" -> TRUE
         [] array[i].kind = "user" -> behs[i] \in Behaviours
         [] OTHER -> behs[i] = "ret"}

\* what each progress observer of array does during one notify call
ObserverLists(array) ==
  {behs \in [DOMAIN array -> ObserverBehaviours] :
     \A i \in DOMAIN array : ReEnters(array[i]) \/ behs[i] \in Behaviours}

Call(w, op, p, cb, args) == Log(w, Ev("call", op, "main", p, cb, args, FALSE))
Ret(w, op, p, threw) == Log(w, Ev("ret", op, "main", p, 0, <<>>, threw))
\* the call returns val
RetVal(w, op, p, val) == Log(w, Ev("ret", op, "main", p, 0, <<val>>, FALSE))
\* a registration; next is the promise then derives (0 for the others)
Reg(w, op, p, cb, next) ==
  IF IsFunction(cb)
  THEN Log(w, Ev("reg", op, "main", p, cb.id, <<V("promise", next)>>, FALSE))
  ELSE w

Commit(w) ==
  /\ prev' = [promises |-> promises, tasks |-> tasks, uncaught |-> uncaught,
              tlen |-> Len(trace)]
  /\ promises' = w.promises
  /\ tasks' = w.tasks
  /\ uncaught' = w.uncaught
  /\ trace' = w.trace
  /\ combs' = w.combs
  /\ timers' = w.timers
  /\ clock' = w.clock
  /\ stamps' = w.stamps \o [i \in 1..(Len(w.tasks) - Len(w.stamps)) |-> w.clock]
  /\ store' = w.store
  /\ crypt' = w.crypt

CanCall == nops < MaxOps

\* the promise user code built with new Promise()
Roots == {1}

\* the number of functions among the arguments of a call; a registration
\* call that passes no function still uses one callback argument
NFunctions(cbs) == Cardinality({i \in DOMAIN cbs : IsFunction(cbs[i])})
Cost(cbs) == IF NFunctions(cbs) = 0 THEN 1 ELSE NFunctions(cbs)
CanPass(cbs) == ncb + Cost(cbs) <= MaxCallbacks

\* p.defer() in user code: the solver is returned unless the call raises.
\* The one arming of a promise is not counted against MaxOps.
DeferCall(p) ==
  /\ p \in Roots
  /\ CanCall \/ promises[p].state = ""
  /\ LET d == DeferArm(Call(World, "defer", p, 0, <<>>), p) IN
       /\ Commit(Ret(d.w, "defer", p, d.threw))
       /\ solvers' = IF d.threw THEN solvers ELSE solvers \cup {p}
       /\ nops' = IF d.threw THEN nops + 1 ELSE nops
  /\ UNCHANGED ncb

\* solver.resolve(args...) in user code
ResolveCall(p, args) ==
  /\ CanCall
  /\ p \in solvers
  /\ Commit(Ret(SolverResolve(Call(World, "resolve", p, 0, args), p, args),
                "resolve", p, FALSE))
  /\ nops' = nops + 1
  /\ UNCHANGED <<solvers, ncb>>

\* solver.reject(args...) in user code
RejectCall(p, args) ==
  /\ CanCall
  /\ p \in solvers
  /\ Commit(Ret(SolverReject(Call(World, "reject", p, 0, args), p, args),
                "reject", p, FALSE))
  /\ nops' = nops + 1
  /\ UNCHANGED <<solvers, ncb>>

\* solver.notify(args...) in user code
NotifyCall(p, args) ==
  /\ CanCall
  /\ p \in solvers
  /\ \E behs \in ObserverLists(promises[p].onProgress.v) :
       LET r == SolverNotify(Call(World, "notify", p, 0, args), p, args, behs)
       IN Commit(Ret(r.w, "notify", p, r.threw))
  /\ nops' = nops + 1
  /\ UNCHANGED <<solvers, ncb>>

\* then calls a handler at once when the source is settled: what it does
HandlerBehaviours(p, onSuccess, onError) ==
  IF (promises[p].state = "resolved" /\ IsFunction(onSuccess))
     \/ (promises[p].state = "rejected" /\ IsFunction(onError))
  THEN Behaviours \cup {"this"}
  ELSE {"ret"}

\* p.then(onSuccess, onError, onProgress) in user code
ThenCall(p, onSuccess, onError, onProgress) ==
  /\ CanCall
  /\ Len(promises) < MaxPromises
  /\ CanPass(<<onSuccess, onError, onProgress>>)
  /\ LET next == Len(promises) + 1
         w0 == Reg(Reg(Reg(Call(World, "then", p, 0, <<>>),
                           "thenS", p, onSuccess, next),
                       "thenE", p, onError, next),
                   "thenP", p, onProgress, next)
     IN \E beh \in HandlerBehaviours(p, onSuccess, onError) :
          LET r == Then(w0, p, onSuccess, onError, onProgress, next, beh)
          IN Commit(IF r.threw THEN Ret(r.w, "then", p, TRUE)
                    ELSE RetVal(r.w, "then", p, r.val))
  /\ ncb' = ncb + Cost(<<onSuccess, onError, onProgress>>)
  /\ nops' = nops + 1
  /\ UNCHANGED solvers

\* p.done(cb), p.fail(cb), p.progress(cb), p.always(cb) in user code
DoneCall(p, cb) ==
  /\ CanCall
  /\ CanPass(<<cb>>)
  /\ Commit(RetVal(Done(Reg(Call(World, "done", p, cb.id, <<>>),
                            "done", p, cb, 0),
                        p, cb), "done", p, V("promise", p)))
  /\ ncb' = ncb + Cost(<<cb>>)
  /\ nops' = nops + 1
  /\ UNCHANGED solvers

FailCall(p, cb) ==
  /\ CanCall
  /\ CanPass(<<cb>>)
  /\ Commit(RetVal(Fail(Reg(Call(World, "fail", p, cb.id, <<>>),
                            "fail", p, cb, 0),
                        p, cb), "fail", p, V("promise", p)))
  /\ ncb' = ncb + Cost(<<cb>>)
  /\ nops' = nops + 1
  /\ UNCHANGED solvers

ProgressCall(p, cb) ==
  /\ CanCall
  /\ CanPass(<<cb>>)
  /\ Commit(RetVal(Progress(Reg(Call(World, "progress", p, cb.id, <<>>),
                                "progress", p, cb, 0),
                            p, cb), "progress", p, V("promise", p)))
  /\ ncb' = ncb + Cost(<<cb>>)
  /\ nops' = nops + 1
  /\ UNCHANGED solvers

AlwaysCall(p, cb) ==
  /\ CanCall
  /\ CanPass(<<cb>>)
  /\ Commit(RetVal(Always(Reg(Call(World, "always", p, cb.id, <<>>),
                              "always", p, cb, 0),
                          p, cb), "always", p, V("promise", p)))
  /\ ncb' = ncb + Cost(<<cb>>)
  /\ nops' = nops + 1
  /\ UNCHANGED solvers

\* the host runs the oldest setTimeout(fn) closure
RunTaskOf(returned) ==
  /\ tasks # <<>>
  /\ ~TimerBefore(Head(stamps))
  /\ LET t == Head(tasks)
         w0 == Log([World EXCEPT !.tasks = Tail(tasks),
                                 !.stamps = Tail(stamps)],
                   Ev("task", IF t.guarded THEN "dispatch" ELSE "callback",
                      "host", t.p, 0, <<>>, FALSE))
     IN \E behs \in BehaviourLists(t.array, returned) :
          Commit(RunArray(w0, t.p, t.array, 1, t.guarded, behs))
  /\ UNCHANGED <<solvers, ncb, nops>>

\* the functions the task calls return plain values or raise
RunTask == RunTaskOf({})
\* the then handlers the task calls may also return a Future
RunTaskThen == RunTaskOf(FutureBehaviours)

Init ==
  /\ promises = <<NewPromiseObject>>
  /\ tasks = <<>>
  /\ uncaught = 0
  /\ trace = <<>>
  /\ solvers = {}
  /\ ncb = 0
  /\ nops = 0
  /\ combs = <<>>
  /\ timers = <<>>
  /\ clock = 0
  /\ stamps = <<>>
  /\ store = EmptyStore
  /\ crypt = NewCryptStorage
  /\ prev = [promises |-> <<NewPromiseObject>>, tasks |-> <<>>, uncaught |-> 0,
             tlen |-> 0]

\* then is also called without a function; the attachment operators are
\* called without one under SpecAttach
Next ==
  \/ \E p \in Promises : DeferCall(p)
  \/ \E p \in Promises, args \in ArgTuples : ResolveCall(p, args)
  \/ \E p \in Promises, args \in ArgTuples : RejectCall(p, args)
  \/ \E p \in Promises, args \in ArgTuples : NotifyCall(p, args)
  \/ \E p \in Promises :
       \E a \in ThenArgs(ncb) : ThenCall(p, a[1], a[2], a[3])
  \/ \E p \in Promises : \E cb \in Callbacks(ncb + 1) \ {NoCb} : DoneCall(p, cb)
  \/ \E p \in Promises : \E cb \in Callbacks(ncb + 1) \ {NoCb} : FailCall(p, cb)
  \/ \E p \in Promises : \E cb \in Callbacks(ncb + 1) \ {NoCb} : ProgressCall(p, cb)
  \/ \E p \in Promises : \E cb \in Callbacks(ncb + 1) \ {NoCb} : AlwaysCall(p, cb)
  \/ RunTask

Spec == Init /\ [][Next]_vars

\* The settlement observers: done, fail, always and then on a promise that
\* user code arms and settles.
NextObserve ==
  \/ \E p \in Promises : DeferCall(p)
  \/ \E p \in Promises, args \in ArgTuples : ResolveCall(p, args)
  \/ \E p \in Promises, args \in ArgTuples : RejectCall(p, args)
  \/ \E p \in Promises :
       \E a \in ThenArgs(ncb) : ThenCall(p, a[1], a[2], a[3])
  \/ \E p \in Promises : \E cb \in Callbacks(ncb + 1) \ {NoCb} : DoneCall(p, cb)
  \/ \E p \in Promises : \E cb \in Callbacks(ncb + 1) \ {NoCb} : FailCall(p, cb)
  \/ \E p \in Promises : \E cb \in Callbacks(ncb + 1) \ {NoCb} : AlwaysCall(p, cb)
  \/ RunTask

SpecObserve == Init /\ [][NextObserve]_vars

\* then alone, on a promise that user code arms and settles, with handlers
\* that return plain values, return Futures or raise.
NextThen ==
  \/ \E p \in Promises : DeferCall(p)
  \/ \E p \in Promises, args \in ArgTuples : ResolveCall(p, args)
  \/ \E p \in Promises, args \in ArgTuples : RejectCall(p, args)
  \/ \E p \in Promises :
       \E a \in ThenArgs(ncb) : ThenCall(p, a[1], a[2], a[3])
  \/ RunTaskThen

SpecThen == Init /\ [][NextThen]_vars

\* The attachment operators alone, each called with and without a
\* function, on a promise that user code arms and settles.
NextAttach ==
  \/ \E p \in Promises : DeferCall(p)
  \/ \E p \in Promises, args \in ArgTuples : ResolveCall(p, args)
  \/ \E p \in Promises, args \in ArgTuples : RejectCall(p, args)
  \/ \E p \in Promises : \E cb \in Callbacks(ncb + 1) : DoneCall(p, cb)
  \/ \E p \in Promises : \E cb \in Callbacks(ncb + 1) : FailCall(p, cb)
  \/ \E p \in Promises : \E cb \in Callbacks(ncb + 1) : ProgressCall(p, cb)
  \/ \E p \in Promises : \E cb \in Callbacks(ncb + 1) : AlwaysCall(p, cb)
  \/ RunTask

SpecAttach == Init /\ [][NextAttach]_vars

\* ------------------------------------------- the combinators' user code
\* User code holds MaxItems Deferred objects, settles each of them once, in
\* any order and with either outcome, and makes one call of when, all or
\* allOrNone on them, their promises and plain values, before, between or
\* after the settlements.  Deferred k settles with Args(k).  Item i of a
\* list is the promise of Deferred i; the first item may also be the
\* Deferred itself and the last one a plain value.  The order of arrival
\* varies with the order of the settlements.
Deferreds == 1..MaxItems
Plain == V("val", 0)
Items ==
  {V("promise", k) : k \in Deferreds} \cup {V("deferred", 1), Plain}
ItemsAt(i, n) ==
  {V("promise", i)} \cup (IF i = 1 THEN {V("deferred", 1)} ELSE {})
                   \cup (IF i = n THEN {Plain} ELSE {})
ItemLists ==
  UNION {{items \in [1..n -> Items] : \A i \in 1..n : items[i] \in ItemsAt(i, n)} :
           n \in 0..MaxItems}
\* new Deferred(): this._promise = new Promise(), this._solver = defer()
DeferredPromise == [NewPromiseObject EXCEPT !.state = "running"]

\* deferred.resolve(args...) in user code
DeferredResolve(k) ==
  /\ promises[k].state = "running"
  /\ Commit(Ret(SolverResolve(Call(World, "resolve", k, 0, Args(k)), k, Args(k)),
                "resolve", k, FALSE))
  /\ UNCHANGED <<solvers, ncb, nops>>

\* deferred.reject(args...) in user code
DeferredReject(k) ==
  /\ promises[k].state = "running"
  /\ Commit(Ret(SolverReject(Call(World, "reject", k, 0, Args(k)), k, Args(k)),
                "reject", k, FALSE))
  /\ UNCHANGED <<solvers, ncb, nops>>

\* Promise.when(item, onSuccess, onError, onProgress) in user code
WhenCall(item, onSuccess, onError, onProgress) ==
  /\ nops = 0
  /\ CanPass(<<onSuccess, onError, onProgress>>)
  /\ LET r == When(Log(World, Ev("call", "when", "main", 0, 0, <<item>>, FALSE)),
                   item, onSuccess, onError, onProgress)
     IN Commit(RetVal(r.w, "when", 0, r.val))
  /\ ncb' = ncb + Cost(<<onSuccess, onError, onProgress>>)
  /\ nops' = nops + 1
  /\ UNCHANGED solvers

\* Promise.all(items) in user code
AllCall(items) ==
  /\ nops = 0
  /\ LET r == All(Log(World, Ev("call", "all", "main", 0, 0, items, FALSE)), items)
     IN Commit(RetVal(r.w, "all", 0, r.val))
  /\ nops' = nops + 1
  /\ UNCHANGED <<solvers, ncb>>

\* Promise.allOrNone(items) in user code
AllOrNoneCall(items) ==
  /\ nops = 0
  /\ LET r == AllOrNone(Log(World, Ev("call", "allOrNone", "main", 0, 0, items,
                                     FALSE)), items)
     IN Commit(RetVal(r.w, "allOrNone", 0, r.val))
  /\ nops' = nops + 1
  /\ UNCHANGED <<solvers, ncb>>

\* Promise.any(items) in user code
AnyCall(items) ==
  /\ nops = 0
  /\ LET r == PromiseAny(Log(World, Ev("call", "any", "main", 0, 0, items, FALSE)), items)
     IN Commit(RetVal(r.w, "any", 0, r.val))
  /\ nops' = nops + 1
  /\ UNCHANGED <<solvers, ncb>>

\* Promise.execute(callback) in user code, with what callback does
ExecuteCall(callback, item) ==
  /\ nops = 0
  /\ CanPass(<<callback>>)
  /\ LET r == Execute(Log(World, Ev("call", "execute", "main", 0, callback.id,
                                   <<>>, FALSE)), callback, item)
     IN Commit(RetVal(r.w, "execute", 0, r.val))
  /\ ncb' = ncb + 1
  /\ nops' = nops + 1
  /\ UNCHANGED solvers

\* ------------------------------------------------- the timed user code
\* the promise a delay call returned, if user code made one
DelayPromises == {combs[c].next : c \in {d \in DOMAIN combs : combs[d].kind = "delay"}}
\* the delays user code passes
Delays == 0..MaxDelay

\* Promise.delay(timeout, every) in user code, once
DelayCall(timeout, every) ==
  /\ DelayPromises = {}
  /\ nops = 0
  /\ LET r == Delay(Log(World, Ev("call", "delay", "main", 0, 0,
                                 <<V("val", timeout), V("val", every)>>, FALSE)),
                    timeout, every)
     IN Commit(RetVal(r.w, "delay", 0, r.val))
  /\ UNCHANGED <<solvers, ncb, nops>>

\* Promise.first(items) in user code
FirstCall(items) ==
  /\ nops = 0
  /\ LET r == First(Log(World, Ev("call", "first", "main", 0, 0, items, FALSE)),
                    items)
     IN Commit(RetVal(r.w, "first", 0, r.val))
  /\ nops' = nops + 1
  /\ UNCHANGED <<solvers, ncb>>

\* Promise.timeout(item, timeout) in user code
TimeoutCall(item, timeout) ==
  /\ nops = 0
  /\ LET r == Timeout(Log(World, Ev("call", "timeout", "main", 0, 0,
                                   <<item, V("val", timeout)>>, FALSE)),
                      item, timeout)
     IN Commit(RetVal(r.w, "timeout", 0, r.val))
  /\ nops' = nops + 1
  /\ UNCHANGED <<solvers, ncb>>

\* the host runs the timer id of its list: it is due, no timer is due
\* before it and no task was queued before it was due
RunTimer(id) ==
  /\ id \in Waiting(timers)
  /\ timers[id].due <= clock
  /\ \A other \in Waiting(timers) : timers[id].due <= timers[other].due
  /\ IF tasks = <<>> THEN TRUE ELSE timers[id].due <= Head(stamps)
  /\ LET t == timers[id]
         c == t.fn.next
         w0 == Log([World EXCEPT !.timers[id] =
                      IF t.kind = "interval"
                      THEN [@ EXCEPT !.due = clock + t.every]
                      ELSE [@ EXCEPT !.live = FALSE]],
                   Ev("task", "timer", "host", combs[c].next, id, <<>>, FALSE))
     IN IF t.fn.kind = "delayTick"
        THEN \E behs \in [DOMAIN promises[combs[c].next].onProgress.v ->
                            Behaviours] :
               Commit(DelayTick(w0, c, behs))
        ELSE Commit(TimerFn(w0, t.fn))
  /\ UNCHANGED <<solvers, ncb, nops>>

\* time passes while a timer waits
Tick ==
  /\ \E id \in Waiting(timers) : timers[id].due > clock
  /\ Commit([World EXCEPT !.clock = @ + 1])
  /\ UNCHANGED <<solvers, ncb, nops>>

InitComb ==
  /\ promises = [k \in Deferreds |-> DeferredPromise]
  /\ tasks = <<>>
  /\ uncaught = 0
  /\ trace = <<>>
  /\ solvers = Deferreds
  /\ ncb = 0
  /\ nops = 0
  /\ combs = <<>>
  /\ timers = <<>>
  /\ clock = 0
  /\ stamps = <<>>
  /\ store = EmptyStore
  /\ crypt = NewCryptStorage
  /\ prev = [promises |-> [k \in Deferreds |-> DeferredPromise],
             tasks |-> <<>>, uncaught |-> 0, tlen |-> 0]

NextComb ==
  \/ \E k \in Deferreds : DeferredResolve(k)
  \/ \E k \in Deferreds : DeferredReject(k)
  \/ \E item \in Items : \E a \in ThenArgs(ncb) :
       WhenCall(item, a[1], a[2], a[3])
  \/ \E items \in ItemLists : AllCall(items)
  \/ \E items \in ItemLists : AllOrNoneCall(items)
  \/ RunTask

SpecComb == InitComb /\ [][NextComb]_vars

\* One call of any on the Deferred objects, or one call of execute with a
\* callback that raises or returns a plain value, a Deferred or the
\* promise of one.
NextAny ==
  \/ \E k \in Deferreds : DeferredResolve(k)
  \/ \E k \in Deferreds : DeferredReject(k)
  \/ \E items \in ItemLists : AnyCall(items)
  \/ \E item \in Items \cup {Raises} : ExecuteCall(UserCb(ncb + 1), item)
  \/ RunTask

SpecAny == InitComb /\ [][NextAny]_vars

\* One call of first, either on the Deferred objects that user code settles
\* and plain values, or on the promise of a delay call made before it, next
\* to a plain value or a promise that stays pending.  With one timer only
\* its being immediate or not tells the delays apart.
FirstLists ==
  ItemLists \cup {<<V("promise", d), item>> :
                    d \in DelayPromises, item \in {Plain, V("promise", 1)}}
NextFirst ==
  \/ \E k \in Deferreds : DelayPromises = {} /\ DeferredResolve(k)
  \/ \E k \in Deferreds : DelayPromises = {} /\ DeferredReject(k)
  \/ \E t \in {0, 1} :
       /\ \A k \in Deferreds : promises[k].state = "running"
       /\ DelayCall(t, NoEvery)
  \/ \E items \in FirstLists : FirstCall(items)
  \/ RunTask
  \/ \E id \in DOMAIN timers : RunTimer(id)
  \/ Tick

SpecFirst == InitComb /\ [][NextFirst]_vars

\* One call of delay, observed by user code with done, fail and progress.
NextDelay ==
  \/ \E t \in Delays, e \in Delays : DelayCall(t, e)
  \/ \E p \in DelayPromises : DoneCall(p, UserCb(ncb + 1))
  \/ \E p \in DelayPromises : FailCall(p, UserCb(ncb + 1))
  \/ \E p \in DelayPromises : ProgressCall(p, UserCb(ncb + 1))
  \/ RunTask
  \/ \E id \in DOMAIN timers : RunTimer(id)
  \/ Tick

SpecDelay == InitComb /\ [][NextDelay]_vars

\* One call of timeout on a plain value, on the promise of the first
\* Deferred or on the promise of a delay call made before it.
TimedItems == {Plain, V("promise", 1)} \cup {V("promise", d) : d \in DelayPromises}
NextTimeout ==
  \/ DeferredResolve(1)
  \/ DeferredReject(1)
  \/ \E t \in Delays : DelayCall(t, NoEvery)
  \/ \E item \in TimedItems, t \in Delays : TimeoutCall(item, t)
  \/ RunTask
  \/ \E id \in DOMAIN timers : RunTimer(id)
  \/ Tick

SpecTimeout == InitComb /\ [][NextTimeout]_vars

\* ------------------------------------------------ the storage's user code
\* storage.put(metadata) in user code
PutCall(metadata) ==
  /\ Commit([World EXCEPT !.store =
       [StoragePut(store, metadata) EXCEPT
          !.reply = [op |-> "put", id |-> metadata.id, failed |-> FALSE,
                     result |-> [state |-> "fulfilled", value |-> NoDoc]]]])
  /\ UNCHANGED <<solvers, ncb, nops>>

\* storage.get({_id: id}) in user code; failed: the request of the
\* document raises an error event
GetCall(id, failed) ==
  /\ Commit([World EXCEPT !.store.reply =
       [op |-> "get", id |-> id, failed |-> failed,
        result |-> StorageGet(store, id, failed)]])
  /\ UNCHANGED <<solvers, ncb, nops>>

\* storage.putAttachment({_id: id, _attachment: name, _blob: blob}) in
\* user code
PutAttachmentCall(id, name, bytes) ==
  /\ Commit([World EXCEPT !.store =
       [StoragePutAttachment(store, id, name, bytes) EXCEPT
          !.reply = [op |-> "putAttachment", id |-> id, name |-> name,
                     result |-> [state |-> "fulfilled", value |-> NoDoc]],
          !.lastPut = [op |-> "putAttachment", id |-> id, name |-> name,
                       blob |-> bytes]]])
  /\ UNCHANGED <<solvers, ncb, nops>>

\* storage.getAttachment({_id: id, _attachment: name}) in user code
GetAttachmentCall(id, name) ==
  /\ Commit([World EXCEPT !.store.reply =
       [op |-> "getAttachment", id |-> id, name |-> name,
        result |-> StorageGetAttachment(store, id, name, 0, 0)]])
  /\ UNCHANGED <<solvers, ncb, nops>>

\* User code stores documents and empty attachments and gets documents.
NextGet ==
  \/ \E metadata \in Docs : PutCall(metadata)
  \/ \E id \in StoreIds, failed \in BOOLEAN : GetCall(id, failed)
  \/ \E id \in StoreIds, name \in StoreNames : PutAttachmentCall(id, name, <<>>)

SpecGet == Init /\ [][NextGet]_vars

\* User code stores attachments and gets them.
NextBlob ==
  \/ \E id \in StoreIds, name \in StoreNames, bytes \in Blobs :
       PutAttachmentCall(id, name, bytes)
  \/ \E id \in StoreIds, name \in StoreNames : GetAttachmentCall(id, name)

SpecBlob == Init /\ [][NextBlob]_vars

\* One call of all, allOrNone, any or first on the list without items;
\* user code then settles a Deferred object, attaches observers to the
\* promise the call returned and calls defer on it.
ResultPromises == {combs[c].next : c \in DOMAIN combs}
\* promise.defer() in user code, on a promise the library armed
DeferAgainCall(p) ==
  /\ CanCall
  /\ LET d == DeferArm(Call(World, "defer", p, 0, <<>>), p)
     IN Commit(Ret(d.w, "defer", p, d.threw))
  /\ nops' = nops + 1
  /\ UNCHANGED <<solvers, ncb>>

NextEmpty ==
  \/ combs # <<>> /\ DeferredResolve(1)
  \/ combs # <<>> /\ DeferredReject(1)
  \/ AllCall(<<>>)
  \/ AllOrNoneCall(<<>>)
  \/ AnyCall(<<>>)
  \/ FirstCall(<<>>)
  \/ \E p \in ResultPromises : DoneCall(p, UserCb(ncb + 1))
  \/ \E p \in ResultPromises : FailCall(p, UserCb(ncb + 1))
  \/ \E p \in ResultPromises : DeferAgainCall(p)
  \/ RunTask

SpecEmpty == InitComb /\ [][NextEmpty]_vars

\* Observers that raise.  User code arms promise 1, queues up to
\* MaxCallbacks settlement observers with done and fail and then up to
\* MaxCallbacks progress observers, and only then notifies, once, and
\* settles.
QueuedObservers(p) ==
  Len(promises[p].onResolve.v) + Len(promises[p].onReject.v)
\* p.done(cb) on the armed promise
QueueDone(p, cb) ==
  /\ nops = 0
  /\ promises[p].state = "running"
  /\ promises[p].onProgress.v = <<>>
  /\ QueuedObservers(p) < MaxCallbacks
  /\ Commit(RetVal(Done(Reg(Call(World, "done", p, cb.id, <<>>),
                            "done", p, cb, 0),
                        p, cb), "done", p, V("promise", p)))
  /\ ncb' = ncb + 1
  /\ UNCHANGED <<solvers, nops>>

\* p.fail(cb) on the armed promise
QueueFail(p, cb) ==
  /\ nops = 0
  /\ promises[p].state = "running"
  /\ promises[p].onProgress.v = <<>>
  /\ QueuedObservers(p) < MaxCallbacks
  /\ Commit(RetVal(Fail(Reg(Call(World, "fail", p, cb.id, <<>>),
                            "fail", p, cb, 0),
                        p, cb), "fail", p, V("promise", p)))
  /\ ncb' = ncb + 1
  /\ UNCHANGED <<solvers, nops>>

\* p.progress(cb) on the armed promise
QueueProgress(p, cb) ==
  /\ nops = 0
  /\ promises[p].state = "running"
  /\ Len(promises[p].onProgress.v) < MaxCallbacks
  /\ Commit(RetVal(Progress(Reg(Call(World, "progress", p, cb.id, <<>>),
                                "progress", p, cb, 0),
                            p, cb), "progress", p, V("promise", p)))
  /\ ncb' = ncb + 1
  /\ UNCHANGED <<solvers, nops>>

\* user code has not called notify on p
NotNotified(p) ==
  \A i \in DOMAIN trace :
    ~(trace[i].e = "call" /\ trace[i].op = "notify" /\ trace[i].p = p)

NextRaise ==
  \/ \E p \in Promises : DeferCall(p)
  \/ \E p \in Promises : QueueDone(p, UserCb(ncb + 1))
  \/ \E p \in Promises : QueueFail(p, UserCb(ncb + 1))
  \/ \E p \in Promises : QueueProgress(p, UserCb(ncb + 1))
  \/ \E p \in Promises, args \in ArgTuples :
       NotNotified(p) /\ NotifyCall(p, args)
  \/ \E p \in Promises, args \in ArgTuples : ResolveCall(p, args)
  \/ \E p \in Promises, args \in ArgTuples : RejectCall(p, args)
  \/ RunTask

SpecRaise == Init /\ [][NextRaise]_vars

\* IndexedDBStorage.prototype.removeAttachment: one readwrite transaction
\* on the attachment and blob stores; the reply keeps what the two stores
\* held when the call was made
RemoveAttachmentCall(id, name) ==
  /\ Commit([World EXCEPT !.store =
       [RemoveAttachment(store, id, name) EXCEPT
          !.reply = [op |-> "removeAttachment", id |-> id, name |-> name,
                     before |-> [attachment |-> store.attachment,
                                 blob |-> store.blob],
                     result |-> [state |-> "fulfilled", value |-> NoDoc]]]])
  /\ UNCHANGED <<solvers, ncb, nops>>

\* Attachments stored and removed.
NextRemove ==
  \/ \E id \in StoreIds, name \in StoreNames, bytes \in Blobs :
       PutAttachmentCall(id, name, bytes)
  \/ \E id \in StoreIds, name \in StoreNames : RemoveAttachmentCall(id, name)

SpecRemove == Init /\ [][NextRemove]_vars

\* the values user code passes as _start and _end
RangeEnds == -1..MaxBlob
\* IndexedDBStorage.prototype.getAttachment with options _start and _end
GetAttachmentRangeCall(id, name, pstart, pend) ==
  /\ Commit([World EXCEPT !.store.reply =
       [op |-> "getAttachment", id |-> id, name |-> name,
        start |-> pstart, end |-> pend,
        result |-> StorageGetAttachment(store, id, name, pstart, pend)]])
  /\ UNCHANGED <<solvers, ncb, nops>>

\* One attachment, stored and read back in part.
NextRange ==
  \/ \E bytes \in Blobs : PutAttachmentCall(<<"a">>, <<"c">>, bytes)
  \/ \E pstart, pend \in RangeEnds :
       /\ store.lastPut.op = "putAttachment"
       /\ GetAttachmentRangeCall(store.lastPut.id, store.lastPut.name,
                                 pstart, pend)

SpecRange == Init /\ [][NextRange]_vars

\* CryptStorage: concurrent putAttachment and getAttachment calls on one
\* instance, their callbacks run by the host in any order.
CryptCalls == 1..Len(crypt.calls)
\* CryptStorage.prototype.putAttachment: the call builds its chain
CryptPutAttachmentCall ==
  /\ Len(crypt.calls) < MaxOps
  /\ Commit([World EXCEPT !.crypt.calls =
                            Append(@, CryptCall("putAttachment", "check"))])
  /\ UNCHANGED <<solvers, ncb, nops>>

\* CryptStorage.prototype.getAttachment: the call asks the sub storage
CryptGetAttachmentCall ==
  /\ Len(crypt.calls) < MaxOps
  /\ Commit([World EXCEPT !.crypt.calls =
                            Append(@, CryptCall("getAttachment", "fetch"))])
  /\ UNCHANGED <<solvers, ncb, nops>>

\* the host runs the next callback of call c
CryptStep(c) ==
  /\ crypt.calls[c].pc \notin {"done", "failed"}
  /\ \E encrypted \in BOOLEAN : Commit(CryptCallback(World, c, encrypted))
  /\ UNCHANGED <<solvers, ncb, nops>>

NextCrypt ==
  \/ CryptPutAttachmentCall
  \/ CryptGetAttachmentCall
  \/ \E c \in CryptCalls : CryptStep(c)

SpecCrypt == Init /\ [][NextCrypt]_vars

TypeOK ==
  /\ \A p \in Promises : promises[p].state \in {"", "running"} \cup Settled
  /\ uncaught \in Nat

\* ------------------------------------------------- reading the trace
Idx == 1..Len(trace)
Min(S) == CHOOSE x \in S : \A y \in S : x <= y
IsSettleCall(ev, p) ==
  ev.e = "call" /\ ev.op \in {"resolve", "reject"} /\ ev.p = p
\* the positions of the resolve / reject calls made on p's solver
SettleCalls(p) == {i \in Idx : IsSettleCall(trace[i], p)}
\* the position of p's first settle call, past the end when there is none
FirstSettlePos(p) ==
  LET S == SettleCalls(p) IN IF S = {} THEN Len(trace) + 1 ELSE Min(S)
StateOf(op) == IF op = "resolve" THEN "resolved" ELSE "rejected"
\* the settlement dispatches of p: those the host ran and those it holds
DispatchesRun(p) ==
  {i \in Idx : trace[i].e = "task" /\ trace[i].op = "dispatch" /\ trace[i].p = p}
DispatchesQueued(p) ==
  {i \in 1..Len(tasks) : tasks[i].guarded /\ tasks[i].p = p}
\* the events of the last step
StepIdx == (prev.tlen + 1)..Len(trace)
\* the last step was user code calling one of ops on p
UserCalled(ops, p) ==
  /\ prev.tlen < Len(trace)
  /\ trace[prev.tlen + 1].e = "call" /\ trace[prev.tlen + 1].ctx = "main"
  /\ trace[prev.tlen + 1].op \in ops /\ trace[prev.tlen + 1].p = p
\* that call returned (threw = FALSE) or raised (threw = TRUE)
Returned(threw) ==
  trace[Len(trace)].e = "ret" /\ trace[Len(trace)].threw = threw
\* the last step changed neither the heap nor the task queue and called
\* no function
NothingHappened ==
  /\ promises = prev.promises
  /\ tasks = prev.tasks
  /\ uncaught = prev.uncaught
  /\ Len(trace) = prev.tlen + 2

\* ------------------------------------------------------------------ C1
C1_FirstSettlementWins ==
  \A p \in Promises :
    LET first == FirstSettlePos(p) IN
    IF first > Len(trace)
    THEN promises[p].state \notin Settled
    ELSE /\ promises[p].state = StateOf(trace[first].op)
         /\ promises[p].answers = Def(trace[first].args)
         /\ Cardinality(DispatchesRun(p)) + Cardinality(DispatchesQueued(p)) = 1

C1_LaterCallsAreNoOps ==
  \A p \in Promises :
    (UserCalled({"resolve", "reject"}, p) /\ prev.promises[p].state \in Settled)
    => NothingHappened /\ Returned(FALSE)

\* C1: settle-once.  After any sequence of resolve / reject calls on a
\* promise's solver the state and the payload are those of the first call
\* and exactly one dispatch was scheduled; every later call leaves the
\* heap and the task queue unchanged, invokes nothing and returns normally.
C1_SettleOnce == C1_FirstSettlementWins /\ C1_LaterCallsAreNoOps

\* a promise that was resolved and then rejected with other values
C1_Witness ==
  \E p \in Promises : \E i, j \in SettleCalls(p) :
    /\ i < j
    /\ trace[i].op = "resolve" /\ trace[j].op = "reject"
    /\ trace[i].args # trace[j].args
    /\ UserCalled({"reject"}, p)

\* ------------------------------------------------------------------ C2
\* C2: defer arms an unarmed promise and returns; on a promise that is
\* running, resolved or rejected it raises at the call site and leaves the
\* state, the payload and the observer queues as they were.
C2_DeferOnlyUnarmed ==
  \A p \in Promises :
    UserCalled({"defer"}, p) =>
      IF prev.promises[p].state = ""
      THEN /\ Returned(FALSE)
           /\ promises[p] = [prev.promises[p] EXCEPT !.state = "running"]
      ELSE /\ Returned(TRUE)
           /\ NothingHappened

\* defer raised on a promise that was running with an observer queued
C2_Witness ==
  \E p \in Promises :
    /\ UserCalled({"defer"}, p)
    /\ prev.promises[p].state = "running"
    /\ prev.promises[p].onResolve.v # <<>>
    /\ Returned(TRUE)

\* ------------------------------------------------------------------ C3
\* the calls of op on p made during the last step
StepCalls(op, p) ==
  {i \in StepIdx : trace[i].e = "call" /\ trace[i].op = op /\ trace[i].p = p}
\* how the last step may have moved p from state a to state b
LegalMove(p, a, b) ==
  \/ a = b
  \/ a = "" /\ b = "running" /\ StepCalls("defer", p) # {}
  \/ /\ a = "running" /\ b \in Settled
     /\ StepCalls(IF b = "resolved" THEN "resolve" ELSE "reject", p) # {}
  \/ /\ a = "" /\ b \in Settled
     /\ \E i \in StepCalls("defer", p) :
          \E j \in StepCalls(IF b = "resolved" THEN "resolve" ELSE "reject", p) :
            i < j

\* C3: a promise is unarmed, running, resolved or rejected; a step moves it
\* only from unarmed to running by a defer call and from running to resolved
\* or rejected by a call of its solver; a settled promise never changes
\* again, and the payload is present exactly in the two settled states.
C3_StateMachine ==
  \A p \in Promises :
    /\ promises[p].state \in {"", "running", "resolved", "rejected"}
    /\ promises[p].answers.def <=> promises[p].state \in Settled
    /\ LET a == IF p <= Len(prev.promises) THEN prev.promises[p].state ELSE ""
       IN /\ LegalMove(p, a, promises[p].state)
          /\ a \in Settled =>
               /\ promises[p].state = a
               /\ promises[p].answers = prev.promises[p].answers

\* both settled states are reached, one of them by a derived promise
C3_Witness ==
  /\ Len(promises) >= 2
  /\ promises[1].state = "rejected"
  /\ promises[2].state = "resolved"

\* ------------------------------------------------------------------ C4
\* the events of trace at the positions of S, in order
RECURSIVE Pick(_)
Pick(S) ==
  IF S = {} THEN <<>>
  ELSE LET i == Min(S) IN <<trace[i]>> \o Pick(S \ {i})

SuccessOps == {"done", "always", "thenS"}
FailureOps == {"fail", "always", "thenE"}
\* p has no settle call before position i
UnsettledAt(p, i) == i < FirstSettlePos(p)
\* the positions where a settlement observer was registered on p before
\* any settle call; and those among them that wait for p's outcome
EarlyRegs(p, ops) ==
  {i \in 1..(FirstSettlePos(p) - 1) :
     trace[i].e = "reg" /\ trace[i].p = p /\ trace[i].op \in ops}
MatchingOps(p) ==
  IF promises[p].state = "resolved" THEN SuccessOps ELSE FailureOps
\* the positions where one of the functions registered at regs was called
InvocationsOf(regs) ==
  IF regs = {} THEN {}
  ELSE LET ids == {trace[r].cb : r \in regs}
       IN {i \in Idx : trace[i].e = "inv" /\ trace[i].cb \in ids}

C5_DispatchIsDeferred ==
  /\ \A i \in Idx : trace[i].e = "inv" => trace[i].ctx \notin {"resolve", "reject"}
  /\ \A p \in Promises :
       /\ (UserCalled({"resolve", "reject"}, p)
             /\ prev.promises[p].state \notin Settled)
          => /\ promises[p].state = StateOf(trace[prev.tlen + 1].op)
             /\ promises[p].answers = Def(trace[prev.tlen + 1].args)
             /\ Len(trace) = prev.tlen + 2
             /\ Len(tasks) = Len(prev.tasks) + 1
             /\ tasks[Len(tasks)].p = p /\ tasks[Len(tasks)].guarded
       /\ LET first == FirstSettlePos(p)
              runs == DispatchesRun(p)
          IN \A i \in InvocationsOf(EarlyRegs(p, SuccessOps \cup FailureOps)) :
               \E k \in runs : first < k /\ k < i

\* a reject call has returned with an observer queued and not yet called
C5_Witness ==
  \E p \in Promises :
    /\ UserCalled({"reject"}, p)
    /\ prev.promises[p].state = "running"
    /\ prev.promises[p].onReject.v # <<>>
    /\ tasks[Len(tasks)].array = prev.promises[p].onReject.v

\* ------------------------------------------------------------------ C6
\* the positions where cb was registered by op on p after p had been
\* settled by a call of kind settle
LateRegs(p, op, settle) ==
  LET fs == FirstSettlePos(p)
  IN {i \in (fs + 1)..Len(trace) :
        /\ trace[i].e = "reg" /\ trace[i].p = p /\ trace[i].op = op
        /\ trace[fs].op = settle}
\* the host tasks that hold the function registered at position r
TasksHolding(r) ==
  {k \in 1..Len(tasks) :
     \E m \in 1..Len(tasks[k].array) : tasks[k].array[m].id = trace[r].cb}

\* C6: a done callback registered on a resolved promise, and a fail
\* callback registered on a rejected one, is scheduled once: it is either
\* still held by the host or was called exactly once, from a host task that
\* started after the registration call returned, with the stored payload.
C6_LateObserverCalledOnce ==
  \A p \in Promises :
    promises[p].state \in Settled =>
    \A r \in LateRegs(p, "done", "resolve") \cup LateRegs(p, "fail", "reject") :
      LET called == InvocationsOf({r}) IN
      /\ Cardinality(called) + Cardinality(TasksHolding(r)) = 1
      /\ \A i \in called :
           /\ trace[i].ctx = "task"
           /\ trace[i].args = promises[p].answers.v
           /\ trace[i - 1].e = "task" /\ trace[i - 1].op = "callback"
           /\ i - 1 > r + 1

\* a fail callback registered on a rejected promise has been called
C6_Witness ==
  \E p \in Promises : \E r \in LateRegs(p, "fail", "reject") :
    InvocationsOf({r}) # {} /\ TasksHolding(r) = {}

\* ------------------------------------------------------------------ C7
\* every registration made with op
RegsBy(op) == {i \in Idx : trace[i].e = "reg" /\ trace[i].op = op}

\* C7: a done callback of a rejected promise, and a fail callback of a
\* resolved promise, has not been called and is not held by any host task,
\* whether it was registered before or after the settlement.
C7_NoCallForOtherOutcome ==
  /\ \A r \in RegsBy("done") :
       promises[trace[r].p].state = "rejected"
       => InvocationsOf({r}) = {} /\ TasksHolding(r) = {}
  /\ \A r \in RegsBy("fail") :
       promises[trace[r].p].state = "resolved"
       => InvocationsOf({r}) = {} /\ TasksHolding(r) = {}

\* a promise was rejected with one done callback queued and another
\* registered afterwards, and the host has nothing left to run
C7_Witness ==
  \E p \in Promises :
    /\ promises[p].state = "rejected"
    /\ tasks = <<>>
    /\ \E i, j \in RegsBy("done") :
         /\ trace[i].p = p /\ trace[j].p = p
         /\ UnsettledAt(p, i) /\ ~UnsettledAt(p, j)

\* ------------------------------------------------------------------ C8
\* the user calls of notify on p, and the position where call i returned
NotifyCalls(p) ==
  {i \in Idx : /\ trace[i].e = "call" /\ trace[i].op = "notify"
               /\ trace[i].p = p /\ trace[i].ctx = "main"}
ReturnOf(i) == Min({k \in Idx : k > i /\ trace[k].e = "ret"})
\* the progress observers registered on p before position i
ProgressRegs(p, i) ==
  {r \in Idx : /\ trace[r].e = "reg" /\ trace[r].p = p
               /\ trace[r].op \in {"progress", "thenP"} /\ r < i}

\* the functions called between positions i and j, in order
CalledBetween(i, j) == Pick({k \in (i + 1)..(j - 1) : trace[k].e = "inv"})

\* C8: between a notify call on an unsettled promise and its return, the
\* progress observers registered when the call was made are called, each
\* once, in the order of their registration, with the values of the call,
\* and no other function is called; a notify call on a settled promise
\* calls nothing, changes nothing and returns.
C8_NotifyIsSynchronous ==
  \A p \in Promises :
    /\ \A i \in NotifyCalls(p) :
         LET due == IF UnsettledAt(p, i) THEN Pick(ProgressRegs(p, i))
                    ELSE <<>>
             called == CalledBetween(i, ReturnOf(i))
         IN /\ Len(called) = Len(due)
            /\ \A k \in 1..Len(due) :
                 /\ called[k].cb = due[k].cb
                 /\ called[k].ctx = "notify"
                 /\ called[k].p = p
                 /\ called[k].args = trace[i].args
    /\ (UserCalled({"notify"}, p) /\ prev.promises[p].state \in Settled)
       => NothingHappened /\ Returned(FALSE)

\* ------------------------------------------------------------------ C9
\* the notify call inside which the function at position i was called
NotifyAround(p, i) ==
  LET before == {n \in NotifyCalls(p) : n < i}
  IN CHOOSE n \in before : \A m \in before : m <= n

\* C9: a function registered as a progress observer is called only inside
\* a notify call, and only inside one that was made after the function was
\* registered on a promise not yet settled; it is never called for a
\* notification made before its registration, and never when it was
\* registered on a settled promise.
C9_NoReplay ==
  \A p \in Promises : \A r \in ProgressRegs(p, Len(trace) + 1) :
    /\ TasksHolding(r) = {}
    /\ \A i \in InvocationsOf({r}) :
         /\ trace[i].ctx = "notify"
         /\ \E q \in ProgressRegs(p, NotifyAround(p, i)) :
              trace[q].cb = trace[r].cb /\ UnsettledAt(p, q)

\* ----------------------------------------------------------------- C10
\* the positions where a then handler was called and raised
HandlerRaised(r) == {i \in InvocationsOf({r}) : trace[i].threw}
\* the promise derived by the then call that registered at position r
DerivedAt(r) == trace[r].args[1].n
\* the user functions that are called without a try / catch around them
AttachedRegs ==
  {i \in Idx : trace[i].e = "reg" /\ trace[i].op \in {"done", "fail", "always"}}

\* C10: when a then handler raises, whether it was queued or called by
\* then itself on a settled source, the derived promise is rejected with
\* the exception as its payload; no then call raises, and no exception of a
\* then handler reaches the host.
C10_HandlerExceptionRejects ==
  /\ \A r \in {i \in Idx : trace[i].e = "reg" /\ trace[i].op \in {"thenS", "thenE"}} :
       HandlerRaised(r) # {} =>
         /\ promises[DerivedAt(r)].state = "rejected"
         /\ promises[DerivedAt(r)].answers = Def(<<V("exc", trace[r].cb)>>)
  /\ \A i \in Idx :
       (trace[i].e = "ret" /\ trace[i].op \in {"then", "resolve", "reject"})
       => ~trace[i].threw
  /\ uncaught <= Cardinality({i \in InvocationsOf(AttachedRegs) : trace[i].threw})

\* a queued onSuccess handler raised when its source was resolved
C10_Witness ==
  \E r \in RegsBy("thenS") :
    /\ UnsettledAt(trace[r].p, r)
    /\ HandlerRaised(r) # {}
    /\ promises[DerivedAt(r)].state = "rejected"

\* ----------------------------------------------------------------- C11
\* the then calls of user code, the promise each returned, and whether
\* the call at position i passed a handler of kind op (thenS, thenE)
ThenCalls ==
  {i \in Idx : trace[i].e = "call" /\ trace[i].op = "then" /\ trace[i].ctx = "main"}
DerivedBy(i) == trace[ReturnOf(i)].args[1].n
HasHandler(i, op) ==
  \E r \in (i + 1)..(ReturnOf(i) - 1) : trace[r].e = "reg" /\ trace[r].op = op
\* the source of the then call at i has an outcome the call gave no
\* handler for
Unhandled(i) ==
  \/ promises[trace[i].p].state = "resolved" /\ ~HasHandler(i, "thenS")
  \/ promises[trace[i].p].state = "rejected" /\ ~HasHandler(i, "thenE")

C12_SettledThenIsDeferred ==
  \A i \in ThenCalls :
    ~UnsettledAt(trace[i].p, i) =>
      /\ CalledBetween(i, ReturnOf(i)) = <<>>
      /\ \A k \in SettleCalls(DerivedBy(i)) : k > ReturnOf(i)

\* ----------------------------------------------------------------- C13
\* the registrations of then handlers, and the positions where the
\* handler registered at r returned a promise
ThenRegs == {r \in Idx : trace[r].e = "reg" /\ trace[r].op \in {"thenS", "thenE"}}
ReturnedFuture(r) == {i \in InvocationsOf({r}) : trace[i].op \in FutureBehaviours}
\* the promise that the handler called at position i returned
FutureOf(r, i) == IF trace[i].op = "this" THEN trace[i].p ELSE DerivedAt(r)

\* C13: once a then handler has returned a promise F, the derived promise
\* is resolved and its payload is the one value F itself, whatever state F
\* is in and whatever happens to F afterwards; the derived promise is
\* never rejected because F was, and never left running to wait for F.
C13_ThenDoesNotFlatten ==
  \A r \in ThenRegs : \A i \in ReturnedFuture(r) :
    /\ promises[DerivedAt(r)].state = "resolved"
    /\ promises[DerivedAt(r)].answers = Def(<<V("promise", FutureOf(r, i))>>)
    /\ \E k \in SettleCalls(DerivedAt(r)) :
         /\ k = i + 1
         /\ trace[k].op = "resolve"

\* an onError handler returned the rejected promise it was called for, and
\* the derived promise is resolved
C13_Witness ==
  \E r \in RegsBy("thenE") : \E i \in ReturnedFuture(r) :
    /\ trace[i].op = "this"
    /\ promises[FutureOf(r, i)].state = "rejected"
    /\ promises[DerivedAt(r)].state = "resolved"

\* a queued handler returned the promise its then call had returned,
\* which was running at that moment
C13_WitnessRunning ==
  \E r \in ThenRegs : \E i \in ReturnedFuture(r) :
    trace[i].op = "next" /\ FutureOf(r, i) = DerivedAt(r)

\* ----------------------------------------------------------------- C14
AttachOps == {"done", "fail", "progress", "always"}
\* the last step was a call of one of AttachOps on p with no function
CalledWithoutFunction(p) ==
  UserCalled(AttachOps, p) /\ trace[prev.tlen + 1].cb = NoCb.id

\* C14: a call of done, fail, progress or always on p returns p itself,
\* raises nothing, creates no promise and leaves the state and the payload
\* of every promise as they were; a call with something that is not a
\* function also leaves the observer queues and the task queue as they
\* were and registers nothing.
C14_AttachReturnsSameFuture ==
  \A p \in Promises :
    /\ UserCalled(AttachOps, p) =>
         /\ Returned(FALSE)
         /\ trace[Len(trace)].args = <<V("promise", p)>>
         /\ Len(promises) = Len(prev.promises)
         /\ \A q \in Promises :
              /\ promises[q].state = prev.promises[q].state
              /\ promises[q].answers = prev.promises[q].answers
    /\ CalledWithoutFunction(p) => NothingHappened

\* always was called without a function on a running promise that has
\* observers queued
C14_Witness ==
  \E p \in Promises :
    /\ CalledWithoutFunction(p)
    /\ trace[prev.tlen + 1].op = "always"
    /\ promises[p].state = "running"
    /\ promises[p].onResolve.v # <<>>

\* ----------------------------------------------------------------- C15
\* the positions of the last step where a function attached with done,
\* fail, always or progress was called for p and raised
AttachedRaised(p) ==
  LET ids == {trace[r].cb : r \in AttachedRegs \cup RegsBy("progress")}
  IN {k \in StepIdx : /\ trace[k].e = "inv" /\ trace[k].threw
                      /\ trace[k].p = p /\ trace[k].cb \in ids}

\* C15: an exception raised by a function attached with done, fail,
\* progress or always never reaches the host, whether the function was
\* queued before the settlement or registered on a settled promise, and a
\* step in which such a function raised leaves the state and the payload
\* of its promise as they were unless the step also made a resolve or
\* reject call on it.
C15_AttachedExceptionsDiscarded ==
  /\ uncaught = 0
  /\ \A p \in Promises :
       (AttachedRaised(p) # {} /\ StepCalls("resolve", p) = {}
          /\ StepCalls("reject", p) = {})
       => /\ promises[p].state = prev.promises[p].state
          /\ promises[p].answers = prev.promises[p].answers

\* ----------------------------------------------------------------- C16
\* C16: a function attached with always has not been called and is held
\* by no host task while its promise is not settled; once the promise is
\* settled, by either outcome, the function is held by exactly one host
\* task or has been called exactly once, from a host task, with the
\* payload of the outcome; this holds for a function attached before the
\* settlement and for one attached after it.
C16_AlwaysCalledOnce ==
  \A r \in RegsBy("always") :
    LET p == trace[r].p
        calls == InvocationsOf({r})
    IN IF promises[p].state \in Settled
       THEN /\ Cardinality(calls) + Cardinality(TasksHolding(r)) = 1
            /\ \A k \in TasksHolding(r) :
                 Cardinality({m \in DOMAIN tasks[k].array :
                                tasks[k].array[m].id = trace[r].cb}) = 1
            /\ \A i \in calls :
                 /\ trace[i].ctx = "task"
                 /\ trace[i].p = p
                 /\ trace[i].args = promises[p].answers.v
       ELSE calls = {} /\ TasksHolding(r) = {}

\* a function attached with always before its promise was rejected has
\* been called, and the host has nothing left to run
C16_Witness ==
  \E r \in RegsBy("always") :
    /\ UnsettledAt(trace[r].p, r)
    /\ promises[trace[r].p].state = "rejected"
    /\ Cardinality(InvocationsOf({r})) = 1
    /\ tasks = <<>>

\* ------------------------------------------------------------------ C17
\* the calls user code made of a static function, and what they returned
CallsOf(op) ==
  {i \in Idx : trace[i].e = "call" /\ trace[i].op = op /\ trace[i].ctx = "main"}
Result(i) == trace[ReturnOf(i)].args[1]

\* C17: when(item) returns a Future.  For an item that is a Future it is
\* that same Future, for a Deferred it is the Future paired with it, and in
\* both cases no Future is built.  For any other item it is a Future built
\* by the call that, when the call returns, has Succeeded with the item as
\* its only payload value.
C17_WhenPreservesIdentity ==
  \A i \in CallsOf("when") :
    LET item == trace[i].args[1]
        r == Result(i)
    IN /\ r.tag = "promise"
       /\ IF IsPromise(item) \/ IsDeferred(item)
          THEN /\ r.n = item.n
               /\ i \in StepIdx => Len(promises) = Len(prev.promises)
          ELSE /\ promises[r.n].state = "resolved"
               /\ promises[r.n].answers = Def(<<item>>)
               /\ i \in StepIdx => r.n = Len(prev.promises) + 1

\* when was called with a plain value and a success callback, and the host
\* has since called that callback with the value
C17_Witness ==
  \E i \in CallsOf("when") :
    /\ ~IsPromise(trace[i].args[1]) /\ ~IsDeferred(trace[i].args[1])
    /\ \E k \in Idx : /\ k > i /\ trace[k].e = "inv"
                      /\ trace[k].p = Result(i).n
                      /\ trace[k].args = <<trace[i].args[1]>>

\* ------------------------------------------------------------------ C18
\* the closure variables of the call at position i of the trace
CombOf(i) == CHOOSE c \in DOMAIN combs : combs[c].next = Result(i).n
\* An item that is no Future and no Deferred counts as succeeded with
\* itself (C17); the others have the outcome of their promise.
ItemState(item) ==
  IF IsPromise(item) \/ IsDeferred(item) THEN promises[item.n].state
  ELSE "resolved"
ItemValue(item) ==
  IF IsPromise(item) \/ IsDeferred(item)
  THEN Answer(promises[item.n].answers.v)
  ELSE item
AllItemsSettled(items) ==
  \A k \in DOMAIN items : ItemState(items[k]) \in Settled
\* the result of the call has succeeded with the array of the call, which
\* holds at each index the outcome value of the item at that index
SucceededPositionally(i) ==
  /\ promises[Result(i).n].state = "resolved"
  /\ promises[Result(i).n].answers = Def(<<V("array", CombOf(i))>>)
  /\ \A k \in DOMAIN trace[i].args :
       combs[CombOf(i)].array[k] = Def(ItemValue(trace[i].args[k]))

\* the result of all has not failed; when it has succeeded every item has
\* settled and the array is positional
AllAnswersInPlace(i) ==
  /\ promises[Result(i).n].state # "rejected"
  /\ promises[Result(i).n].state = "resolved" =>
       AllItemsSettled(trace[i].args) /\ SucceededPositionally(i)

\* C18: the result of all(items) never fails; it succeeds once every item
\* has settled (and the host has run the callbacks that settlement
\* scheduled) and not before, and then index i of its payload array holds
\* the outcome value of item i, a failure value stored like a success value.
C18_AllAnswersEveryItem ==
  \A i \in CallsOf("all") :
    /\ AllAnswersInPlace(i)
    /\ AllItemsSettled(trace[i].args) /\ tasks = <<>> =>
         promises[Result(i).n].state = "resolved"

\* the same for the calls with at least one item
AllOfSomeItems ==
  \A i \in CallsOf("all") :
    /\ AllAnswersInPlace(i)
    /\ trace[i].args # <<>> /\ AllItemsSettled(trace[i].args) /\ tasks = <<>> =>
         promises[Result(i).n].state = "resolved"

\* all of two items has succeeded, the second item having failed first
AllOfSomeItemsReached ==
  \E i \in CallsOf("all") :
    /\ Len(trace[i].args) = 2
    /\ promises[Result(i).n].state = "resolved"
    /\ promises[2].state = "rejected"
    /\ FirstSettlePos(2) < FirstSettlePos(1)

\* ------------------------------------------------------------------ C19
\* the failures of its items the call at i has observed: the runs of its
\* error callback, in order
FailuresObserved(i) ==
  Pick({k \in Idx : /\ k > i /\ trace[k].e = "obs" /\ trace[k].op = "aonF"
                    /\ trace[k].p = Result(i).n})
SomeItemFailed(items) ==
  \E k \in DOMAIN items : ItemState(items[k]) = "rejected"

\* C19: the result of allOrNone(items) never succeeds when an item has
\* failed, whether the failure came before, between or after the successes
\* of the others and before or after the call.  It fails when the first
\* failure is observed and not before, with the failure value of the item
\* observed: a failed item is observed once the host has run what its
\* failure scheduled.
C19_AllOrNoneFirstFailure ==
  \A i \in CallsOf("allOrNone") :
    LET next == Result(i).n
        items == trace[i].args
        seen == FailuresObserved(i)
    IN /\ SomeItemFailed(items) => promises[next].state # "resolved"
       /\ SomeItemFailed(items) /\ tasks = <<>> => seen # <<>>
       /\ seen = <<>> => promises[next].state # "rejected"
       /\ seen # <<>> =>
            /\ promises[next].state = "rejected"
            /\ promises[next].answers = Def(<<Answer(seen[1].args)>>)
            /\ Answer(seen[1].args) = ItemValue(items[seen[1].cb])
            /\ ItemState(items[seen[1].cb]) = "rejected"

\* both items of allOrNone failed, the second first, and both failures were
\* observed: the result has the failure value of the second
C19_Witness ==
  \E i \in CallsOf("allOrNone") :
    /\ Len(FailuresObserved(i)) = 2
    /\ FailuresObserved(i)[1].cb = 2
    /\ promises[Result(i).n].answers = Def(<<ItemValue(trace[i].args[2])>>)
    /\ ItemValue(trace[i].args[1]) # ItemValue(trace[i].args[2])

\* ------------------------------------------------------------------ C20
\* the successes of its items the call at i has observed: the positions of
\* the runs of its success callback
SuccessesObserved(i) ==
  {k \in Idx : /\ k > i /\ trace[k].e = "obs" /\ trace[k].op = "aonS"
               /\ trace[k].p = Result(i).n}
AllItemsSucceeded(items) ==
  \A k \in DOMAIN items : ItemState(items[k]) = "resolved"

\* C20: when allOrNone is called with at least one item and every item has
\* succeeded, the result succeeds (once the host has run what the successes
\* scheduled).  It is settled by one call, made after the success of every
\* item has been observed, and index i of its payload array holds the
\* success value of item i, whatever the order of the successes.
C20_AllOrNoneAllSucceed ==
  \A i \in CallsOf("allOrNone") :
    LET next == Result(i).n
        items == trace[i].args
    IN /\ items # <<>> /\ AllItemsSucceeded(items) /\ tasks = <<>> =>
            promises[next].state = "resolved"
       /\ promises[next].state = "resolved" =>
            /\ AllItemsSucceeded(items)
            /\ SucceededPositionally(i)
            /\ Cardinality(SettleCalls(next)) = 1
            /\ Cardinality(SuccessesObserved(i)) = Len(items)
            /\ \A k \in SuccessesObserved(i) : k < FirstSettlePos(next)

\* allOrNone of two promises has succeeded, the second item having
\* succeeded before the first
C20_Witness ==
  \E i \in CallsOf("allOrNone") :
    /\ Len(trace[i].args) = 2
    /\ \A k \in 1..2 : IsPromise(trace[i].args[k])
    /\ promises[Result(i).n].state = "resolved"
    /\ FirstSettlePos(2) < FirstSettlePos(1)
    /\ combs[CombOf(i)].array[1] # combs[CombOf(i)].array[2]

\* ------------------------------------------------------------------ C21
\* the runs, in order, of the callbacks of kind that the call at i handed
\* to when
Observed(i, kind) ==
  Pick({k \in Idx : /\ k > i /\ trace[k].e = "obs" /\ trace[k].op = kind
                    /\ trace[k].p = Result(i).n})
\* the payload of a settled item: every value it was settled with
ItemPayload(item) ==
  IF IsPromise(item) \/ IsDeferred(item) THEN promises[item.n].answers.v
  ELSE <<item>>
SomeItemSucceeded(items) ==
  \E k \in DOMAIN items : ItemState(items[k]) = "resolved"

\* C21: once an item of any(items) has succeeded the result never fails,
\* however many items failed before or fail after it; the result succeeds
\* when the first success is observed (a succeeded item is observed once
\* the host has run what its success scheduled) and not before, with the
\* payload of the item observed, and keeps it.
C21_AnyFirstSuccess ==
  \A i \in CallsOf("any") :
    LET next == Result(i).n
        items == trace[i].args
        seen == Observed(i, "anyS")
    IN /\ SomeItemSucceeded(items) => promises[next].state # "rejected"
       /\ SomeItemSucceeded(items) /\ tasks = <<>> => seen # <<>>
       /\ seen = <<>> => promises[next].state # "resolved"
       /\ seen # <<>> =>
            /\ promises[next].state = "resolved"
            /\ promises[next].answers = Def(seen[1].args)
            /\ seen[1].args = ItemPayload(items[seen[1].cb])
            /\ ItemState(items[seen[1].cb]) = "resolved"

\* any of two promises: the first failed and its failure was observed,
\* then the second succeeded and the result has its value
C21_Witness ==
  \E i \in CallsOf("any") :
    /\ Len(trace[i].args) = 2
    /\ Len(Observed(i, "anyF")) = 1 /\ Len(Observed(i, "anyS")) = 1
    /\ Observed(i, "anyF")[1].cb = 1
    /\ promises[Result(i).n].answers = Def(ItemPayload(trace[i].args[2]))
    /\ promises[Result(i).n].state = "resolved"

\* ------------------------------------------------------------------ C22
AllItemsFailed(items) ==
  \A k \in DOMAIN items : ItemState(items[k]) = "rejected"

\* C22 as claimed: the result of any fails only when every item has
\* failed, and for two items that both fail it carries the failure value of
\* the second item, whatever the order of the failures.
C22_AnyCarriesSecondFailure ==
  \A i \in CallsOf("any") :
    LET next == Result(i).n
        items == trace[i].args
    IN promises[next].state = "rejected" =>
         /\ AllItemsFailed(items)
         /\ Len(items) = 2 =>
              promises[next].answers = Def(<<ItemValue(items[2])>>)

\* C22 amended: the result of any fails only when every item has failed;
\* it fails when the failure of the last item is observed (with at least
\* one item, every item failed and the host idle, it has failed), and it
\* carries the failure value of the item whose failure was observed last,
\* which for two items is the second one only when the failure of the
\* first was observed before.
C22_AnyCarriesLastFailure ==
  \A i \in CallsOf("any") :
    LET next == Result(i).n
        items == trace[i].args
        seen == Observed(i, "anyF")
    IN /\ promises[next].state = "rejected" =>
            /\ AllItemsFailed(items)
            /\ Len(seen) = Len(items)
            /\ promises[next].answers = Def(<<Answer(seen[Len(seen)].args)>>)
            /\ Answer(seen[Len(seen)].args) = ItemValue(items[seen[Len(seen)].cb])
       /\ items # <<>> /\ AllItemsFailed(items) /\ tasks = <<>> =>
            promises[next].state = "rejected"

\* both items of any failed, the second before the first: the result
\* carries the failure value of the first
C22_Witness ==
  \E i \in CallsOf("any") :
    /\ Len(trace[i].args) = 2
    /\ promises[Result(i).n].state = "rejected"
    /\ Observed(i, "anyF")[1].cb = 2
    /\ promises[Result(i).n].answers = Def(<<ItemValue(trace[i].args[1])>>)
    /\ ItemValue(trace[i].args[1]) # ItemValue(trace[i].args[2])

\* ------------------------------------------------------------------ C28
\* what the callback of the execute call at i did: the event that holds
\* the value it returned or the exception it raised
ReturnedBy(i) ==
  trace[Min({k \in Idx : k > i /\ trace[k].e = "returned"})]

\* C28: execute calls callback once, before it returns.  When callback
\* raised, the result has failed with the exception when execute returns.
\* When it returned a Future or a Deferred, the result is unsettled while
\* that one is, and has its outcome, kind and payload, once it has settled
\* and the host has run what the settlement scheduled.  When it returned
\* any other value, the result succeeds with that value once the host has
\* run the callbacks execute scheduled, and is never failed.
C28_ExecuteFlattensOnce ==
  \A i \in CallsOf("execute") :
    LET next == Result(i).n
        got == ReturnedBy(i)
        item == got.args[1]
    IN /\ Cardinality({k \in i..ReturnOf(i) : trace[k].e = "returned"}) = 1
       /\ Cardinality({k \in Idx : trace[k].e = "returned"}) = 1
       /\ IF got.threw
          THEN /\ promises[next].state = "rejected"
               /\ promises[next].answers = Def(<<item>>)
          ELSE /\ promises[next].state \in Settled =>
                    /\ promises[next].state = ItemState(item)
                    /\ promises[next].answers = Def(ItemPayload(item))
               /\ ItemState(item) \in Settled /\ tasks = <<>> =>
                    promises[next].state = ItemState(item)

\* callback returned the promise of a Deferred that failed afterwards, and
\* the result has failed with its payload
C28_Witness ==
  \E i \in CallsOf("execute") :
    /\ IsPromise(ReturnedBy(i).args[1])
    /\ FirstSettlePos(ReturnedBy(i).args[1].n) > i
    /\ promises[Result(i).n].state = "rejected"
    /\ promises[Result(i).n].answers = promises[ReturnedBy(i).args[1].n].answers

\* ------------------------------------------------------------------ C23
\* the runs, in order, of the callbacks the first call at i handed to when
ObservedByFirst(i) ==
  Pick({k \in Idx : /\ k > i /\ trace[k].e = "obs"
                    /\ trace[k].op \in {"firstS", "firstF"}
                    /\ trace[k].p = Result(i).n})
\* when item settled, for the call at i: a plain value settles in the call
SettleTime(item, i) ==
  IF IsPromise(item) \/ IsDeferred(item) THEN FirstSettlePos(item.n) ELSE i
\* the item was settled when the call at i was made, or is a plain value
SettledAtCall(item, i) == SettleTime(item, i) <= i
\* the result of the call at i has the outcome of item
TakesOutcomeOf(i, item) ==
  /\ promises[Result(i).n].state = ItemState(item)
  /\ promises[Result(i).n].answers = Def(ItemPayload(item))

\* C23 as claimed: the result of first(items) takes the outcome, kind and
\* value, of the item that settled first.
C23_FirstToSettleWins ==
  \A i \in CallsOf("first") :
    LET items == trace[i].args
    IN promises[Result(i).n].state \in Settled =>
         \E k \in DOMAIN items :
           /\ \A j \in DOMAIN items :
                SettleTime(items[k], i) <= SettleTime(items[j], i)
           /\ TakesOutcomeOf(i, items[k])

\* C23 amended: the result of first(items) takes the outcome, kind and
\* whole payload, of the item whose settlement is observed first, and keeps
\* it; it is unsettled until then, and settled once an item has settled
\* and the host is idle.  Of the items that are settled when first is
\* called, plain values included, the one that comes first in the list is
\* observed first, and before every item that settles later; the items
\* that settle after the call are observed in the order they settle.  So a
\* plain value wins against every item that is pending at the call, an
\* item that waits for a timer included.
C23_FirstObservedWins ==
  \A i \in CallsOf("first") :
    LET items == trace[i].args
        seen == ObservedByFirst(i)
        atCall == {k \in DOMAIN items : SettledAtCall(items[k], i)}
    IN /\ seen = <<>> => promises[Result(i).n].state = "running"
       /\ (\E k \in DOMAIN items : ItemState(items[k]) \in Settled)
            /\ tasks = <<>> => seen # <<>>
       /\ seen # <<>> =>
            LET k == seen[1].cb IN
            /\ TakesOutcomeOf(i, items[k])
            /\ seen[1].op = (IF ItemState(items[k]) = "resolved"
                             THEN "firstS" ELSE "firstF")
            /\ seen[1].args = ItemPayload(items[k])
            /\ IF atCall # {} THEN k = Min(atCall)
               ELSE \A j \in DOMAIN items :
                      SettleTime(items[k], i) <= SettleTime(items[j], i)

\* first([delay(0), v]): the timer of the delay was due when first was
\* called, the delay has succeeded since, and the result has v
C23_Witness ==
  \E i \in CallsOf("first") :
    /\ Len(trace[i].args) = 2
    /\ trace[i].args[2] = Plain
    /\ trace[i].args[1].n \in DelayPromises
    /\ \E c \in DOMAIN combs : combs[c].kind = "delay" /\ combs[c].timeout = 0
    /\ promises[trace[i].args[1].n].state = "resolved"
    /\ Len(ObservedByFirst(i)) = 2
    /\ TakesOutcomeOf(i, Plain)

\* ------------------------------------------------------------------ C24
\* the positions at which the timer of the timeout call at i ran, and at
\* which the callbacks it handed to when ran
TimerRuns(i) ==
  {k \in Idx : /\ k > i /\ trace[k].e = "obs" /\ trace[k].op = "timeoutFire"
               /\ trace[k].p = Result(i).n}
ItemRuns(i) ==
  {k \in Idx : /\ k > i /\ trace[k].e = "obs"
               /\ trace[k].op \in {"timeoutS", "timeoutF"}
               /\ trace[k].p = Result(i).n}
\* the result of the call at i has failed with the Timeout error
TimedOut(i) ==
  /\ promises[Result(i).n].state = "rejected"
  /\ promises[Result(i).n].answers = Def(<<TimeoutError>>)

\* C24: when the timer of timeout(item, t) runs before item has settled,
\* the result has failed with the Timeout error from then on, whatever
\* outcome item has later and also once that outcome was observed.  The
\* timer runs at most once, and the result has exactly one outcome: that of
\* the first resolve or reject call made on it.
C24_TimerFirstTimesOut ==
  \A i \in CallsOf("timeout") :
    LET item == trace[i].args[1]
        next == Result(i).n
    IN /\ Cardinality(TimerRuns(i)) <= 1
       /\ \A k \in TimerRuns(i) : SettleTime(item, i) > k => TimedOut(i)
       /\ promises[next].state \in Settled =>
            /\ promises[next].state = StateOf(trace[FirstSettlePos(next)].op)
            /\ promises[next].answers = Def(trace[FirstSettlePos(next)].args)

\* the timer ran while the item was pending, the item succeeded later and
\* its success was observed: the result is still the Timeout failure
C24_Witness ==
  \E i \in CallsOf("timeout") :
    /\ \E k \in TimerRuns(i) : SettleTime(trace[i].args[1], i) > k
    /\ \E k \in ItemRuns(i) : trace[k].op = "timeoutS"
    /\ TimedOut(i)

\* ------------------------------------------------------------------ C25
\* C25 as claimed: when item has settled before the timer of timeout(item,
\* t) runs, the timer is cancelled, so it does not run, and the result,
\* once settled, has the outcome of item, kind and payload, and never the
\* Timeout error.  A plain value is settled at the call.
C25_ItemFirstForwards ==
  \A i \in CallsOf("timeout") :
    LET item == trace[i].args[1]
    IN /\ \A k \in TimerRuns(i) : SettleTime(item, i) > k
       /\ ItemState(item) \in Settled /\ promises[Result(i).n].state \in Settled
            /\ (\A k \in TimerRuns(i) : SettleTime(item, i) < k)
            => TakesOutcomeOf(i, item)

\* What holds of timeout instead: the outcome observed first wins.  When
\* the callback of the item runs before the timer, the timer is cancelled
\* and never runs, and the result has the outcome of item unchanged.
TimeoutFirstObservedWins ==
  \A i \in CallsOf("timeout") :
    LET item == trace[i].args[1]
    IN /\ \A k \in ItemRuns(i) :
            (\A j \in TimerRuns(i) : k < j) =>
               /\ TimerRuns(i) = {}
               /\ TakesOutcomeOf(i, item)
       /\ \A j \in TimerRuns(i) :
            (\A k \in ItemRuns(i) : j < k) => TimedOut(i)
\* the item failed, its failure was observed before the timer was due and
\* the result has it
TimeoutFirstObservedWinsReached ==
  \E i \in CallsOf("timeout") :
    /\ \E k \in ItemRuns(i) : trace[k].op = "timeoutF"
    /\ TimerRuns(i) = {}
    /\ ~TimedOut(i)
    /\ promises[Result(i).n].state = "rejected"

\* ------------------------------------------------------------------ C26
\* the notify calls, in order, that the delay call at i made, and the
\* positions at which a progress observer of its result was called
Notified(i) ==
  Pick({k \in Idx : /\ trace[k].e = "call" /\ trace[k].op = "notify"
                    /\ trace[k].ctx = "delay" /\ trace[k].p = Result(i).n})
Deliveries(i) ==
  {k \in Idx : /\ trace[k].e = "inv" /\ trace[k].ctx = "notify"
               /\ trace[k].p = Result(i).n}
\* the progress observers registered on p before position k
ProgressObservers(p, k) ==
  {j \in 1..(k - 1) : trace[j].e = "reg" /\ trace[j].op = "progress"
                      /\ trace[j].p = p}

\* C26: the notifications of delay(t, e) with e > 0 carry e, 2e, 3e, ... in
\* this order; each is made before the result settles and is delivered, at
\* once and with its value, to every progress observer registered by then.
\* No observer is called at or after the settlement.  The result never
\* fails: it settles once, as a success with the payload t.
C26_DelayProgressThenSuccess ==
  \A i \in CallsOf("delay") :
    LET next == Result(i).n
        t == trace[i].args[1].n
        e == trace[i].args[2].n
        sent == Notified(i)
        end == FirstSettlePos(next)
        at(k) == CHOOSE j \in Idx : trace[j] = sent[k] /\ trace[j].e = "call"
    IN /\ promises[next].state # "rejected"
       /\ \A k \in SettleCalls(next) : k = end /\ trace[k].op = "resolve"
       /\ promises[next].state = "resolved" =>
            promises[next].answers = Def(<<V("val", t)>>)
       /\ e = NoEvery => sent = <<>>
       /\ \A k \in DOMAIN sent : sent[k].args = <<V("val", k * e)>>
       /\ \A k \in Deliveries(i) :
            /\ k < end
            /\ \E n \in DOMAIN sent : trace[k].args = sent[n].args
       /\ \A n \in DOMAIN sent :
            /\ at(n) < end
            /\ \A j \in ProgressObservers(next, at(n)) :
                 \E k \in Deliveries(i) :
                   /\ k > at(n) /\ trace[k].cb = trace[j].cb
                   /\ trace[k].args = sent[n].args
                   /\ n < Len(sent) => k < at(n + 1)

\* delay(t, e) notified e and then 2e to a progress observer and has
\* succeeded with t since, and the host has told a success observer
C26_Witness ==
  \E i \in CallsOf("delay") :
    /\ Len(Notified(i)) = 2
    /\ Cardinality(Deliveries(i)) = 2
    /\ promises[Result(i).n].state = "resolved"
    /\ \E k \in Idx : /\ trace[k].e = "inv" /\ trace[k].ctx = "task"
                      /\ trace[k].p = Result(i).n
                      /\ trace[k].args = <<V("val", trace[i].args[1].n)>>

\* ------------------------------------------------------------------ C27
\* the repeating timers of the delay call whose closure variables are
\* combs[c] that the host still runs
ActiveIntervals(c) ==
  {id \in DOMAIN timers : /\ timers[id].kind = "interval" /\ timers[id].live
                          /\ timers[id].fn.next = c}

\* C27: in every state in which the result of a delay call is settled, no
\* repeating timer of that call is active.
C27_SettledDelayHasNoInterval ==
  \A c \in DOMAIN combs :
    combs[c].kind = "delay" /\ promises[combs[c].next].state \in Settled =>
      ActiveIntervals(c) = {}

\* a delay with a repeating timer that has ticked is settled, and its
\* timers are gone
C27_Witness ==
  \E i \in CallsOf("delay") :
    /\ Notified(i) # <<>>
    /\ promises[Result(i).n].state = "resolved"
    /\ \A id \in DOMAIN timers : ~timers[id].live

PartsOf(id, name) == {r \in store.blob : r.id = id /\ r.name = name}

\* C30: while putAttachment(id, name, blob) is the last write made to the
\* storage, the blob store holds ceil(length / UNITE) parts of (id, name),
\* part i being the bytes from i * UNITE up to (i + 1) * UNITE, and
\* getAttachment(id, name) without a range succeeds with exactly the bytes
\* of blob, whatever the storage held before.
C30_AttachmentRoundTrip ==
  store.lastPut.op = "putAttachment" =>
    LET id == store.lastPut.id
        name == store.lastPut.name
        bytes == store.lastPut.blob
        n == (Len(bytes) + UNITE - 1) \div UNITE
    IN /\ {r.part : r \in PartsOf(id, name)} = 0..(n - 1)
       /\ Cardinality(PartsOf(id, name)) = n
       /\ \A r \in PartsOf(id, name) :
            r.blob = Slice(bytes, r.part * UNITE, (r.part + 1) * UNITE)
       /\ store.reply.op = "getAttachment" /\ store.reply.id = id
            /\ store.reply.name = name =>
              /\ store.reply.result.state = "fulfilled"
              /\ store.reply.result.value = bytes

\* a blob of two full parts was stored over a record of another name and
\* read back
C30_Witness ==
  /\ store.lastPut.op = "putAttachment"
  /\ Len(store.lastPut.blob) = 2 * UNITE
  /\ Cardinality(store.attachment) > 1
  /\ store.reply.op = "getAttachment"
  /\ store.reply.id = store.lastPut.id /\ store.reply.name = store.lastPut.name
  /\ store.reply.result.value = store.lastPut.blob

\* ------------------------------------------------------------------ C31
\* the value the then handler registered at r returned at position i
ReturnedValue(r, i) ==
  IF trace[i].op \in FutureBehaviours THEN V("promise", FutureOf(r, i))
  ELSE V("ret", trace[r].cb)

\* C31: an onSuccess handler is called only for a resolved source and an
\* onError handler only for a rejected one; whichever of them was called
\* and returned normally, the derived promise is resolved with the value
\* it returned as its only payload value, also when the source is rejected.
C31_HandlerReturnSucceeds ==
  \A r \in ThenRegs : \A i \in InvocationsOf({r}) :
    /\ promises[trace[r].p].state =
         (IF trace[r].op = "thenS" THEN "resolved" ELSE "rejected")
    /\ ~trace[i].threw =>
         /\ promises[DerivedAt(r)].state = "resolved"
         /\ promises[DerivedAt(r)].answers = Def(<<ReturnedValue(r, i)>>)

\* the onError handler of a link queued on a promise that was rejected
\* afterwards returned a plain value, and the derived promise is resolved
\* with it
C31_Witness ==
  \E r \in RegsBy("thenE") : \E i \in InvocationsOf({r}) :
    /\ UnsettledAt(trace[r].p, r)
    /\ trace[i].op = "ret"
    /\ promises[trace[r].p].state = "rejected"
    /\ promises[DerivedAt(r)].state = "resolved"
    /\ promises[DerivedAt(r)].answers = Def(<<V("ret", trace[r].cb)>>)

\* ------------------------------------------------------------------ C32
\* the calls user code made of all, allOrNone, any and first
CollectionCalls ==
  CallsOf("all") \cup CallsOf("allOrNone") \cup CallsOf("any") \cup CallsOf("first")

\* C32: the promise that all, allOrNone, any or first returns for a list
\* without items is armed and stays so in every state reached afterwards:
\* it is running, has no payload, no resolve or reject call was made on
\* it, a defer call on it raises, no observer attached to it was called
\* and no host task holds one.
C32_EmptyNeverSettles ==
  \A i \in CollectionCalls :
    trace[i].args = <<>> =>
      LET next == Result(i).n
      IN /\ promises[next].state = "running"
         /\ promises[next].answers = Undefined
         /\ SettleCalls(next) = {}
         /\ \A k \in Idx :
              /\ trace[k].e = "inv" => trace[k].p # next
              /\ trace[k].e = "ret" /\ trace[k].op = "defer" /\ trace[k].p = next
                   => trace[k].threw
         /\ \A t \in DOMAIN tasks : tasks[t].p # next

\* after the call on the empty list user code attached a done and a fail
\* observer to the result and settled a Deferred, and the host is idle
C32_Witness ==
  \E i \in CollectionCalls :
    /\ trace[i].args = <<>>
    /\ \E k \in Idx : trace[k].e = "reg" /\ trace[k].op = "done"
                      /\ trace[k].p = Result(i).n
    /\ \E k \in Idx : trace[k].e = "reg" /\ trace[k].op = "fail"
                      /\ trace[k].p = Result(i).n
    /\ promises[1].state \in Settled
    /\ tasks = <<>>

\* ------------------------------------------------------------------ C33
\* the events between the notify call at i and its return
InsideNotify(i) == (i + 1)..(ReturnOf(i) - 1)
\* an observer called by the notify call at i called back into the library
ReEntered(i) == \E k \in InsideNotify(i) : trace[k].e \in {"reg", "call"}
SameFunctions(called, due) ==
  /\ Len(called) = Len(due)
  /\ \A k \in 1..Len(due) : called[k].cb = due[k].cb

\* C33: when an observer called by p's settlement dispatch raised, every
\* observer queued on p for the outcome has been called exactly once, in
\* the order of registration.  Inside a notify call the progress observer
\* registered after one that raised is the next function called, and when
\* an observer raised and none called back into the library, every
\* progress observer registered at the call has been called exactly once,
\* in the order of registration, when notify returns.
C33_RaiseDoesNotStopDispatch ==
  \A p \in Promises :
    /\ LET early == EarlyRegs(p, SuccessOps \cup FailureOps)
           called == Pick(InvocationsOf(early))
           due == Pick({r \in early : trace[r].op \in MatchingOps(p)})
       IN (\E k \in 1..Len(called) : called[k].threw)
            => /\ SameFunctions(called, due)
               /\ \A k \in 1..Len(called) : called[k].ctx = "task"
    /\ \A i \in NotifyCalls(p) :
         LET due == Pick(ProgressRegs(p, i))
             called == CalledBetween(i, ReturnOf(i))
         IN /\ \A k \in 1..Len(called) :
                 called[k].threw /\ k < Len(due)
                   => Len(called) > k /\ called[k + 1].cb = due[k + 1].cb
            /\ (\E k \in 1..Len(called) : called[k].threw) /\ ~ReEntered(i)
                 => SameFunctions(called, due) /\ ~trace[ReturnOf(i)].threw

\* two observers were queued for the outcome and two for progress; in the
\* notify call and in the dispatch the first one raised and the second one
\* was called after it
C33_Witness ==
  \E p \in Promises :
    /\ LET called == Pick(InvocationsOf(EarlyRegs(p, MatchingOps(p))))
       IN Len(called) = 2 /\ called[1].threw /\ called[1].ctx = "task"
    /\ \E i \in NotifyCalls(p) :
         LET called == CalledBetween(i, ReturnOf(i))
         IN Len(called) = 2 /\ called[1].threw /\ ~ReEntered(i)

\* ------------------------------------------------------------------ C34
\* the keys that crypto.subtle.importKey was called with
ImportedKeys ==
  {trace[i].args[1] : i \in {k \in Idx : trace[k].op = "importKey"}}
\* _jsonKey is true exactly while _key holds the JSON key
CryptFlagMatchesKey == (crypt.jsonKey = TRUE) <=> (crypt.key = JsonKey)

\* C34: whatever the order in which the host runs the callbacks of
\* concurrent putAttachment and getAttachment calls, importKey is called
\* with the JSON key only, and _jsonKey is true exactly while _key holds
\* the JSON key.
C34_ImportOnlyJsonKey ==
  /\ ImportedKeys \subseteq {JsonKey}
  /\ CryptFlagMatchesKey

\* ------------------------------------------------------------------ C35
\* the records that do not belong to the attachment name of document id
OtherRecords(records, id, name) ==
  {r \in records : ~(r.id = id /\ r.name = name)}
\* after holds the attachment records and the parts of every other
\* attachment that before held
OthersKept(before, after, id, name) ==
  /\ OtherRecords(after.attachment, id, name) =
       OtherRecords(before.attachment, id, name)
  /\ OtherRecords(after.blob, id, name) = OtherRecords(before.blob, id, name)

\* C35: removeAttachment(id, name) leaves the attachment records and the
\* parts of every other document and of every other attachment name as
\* they were, and so does putAttachment(id, name, blob) called on the same
\* database, whose first step is the same removal.
C35_RemovalIsScoped ==
  store.reply.op = "removeAttachment" =>
    LET id == store.reply.id
        name == store.reply.name
        before == store.reply.before
    IN /\ OthersKept(before, store, id, name)
       /\ \A bytes \in Blobs :
            OthersKept(before, StoragePutAttachment(before, id, name, bytes),
                       id, name)

\* ------------------------------------------------------------------ C36
\* C36: getAttachment of the attachment stored last, with _start and _end:
\* when 0 <= _start <= _end the call answers the bytes from _start up to
\* the smaller one of _end and the length; when _start or _end is negative
\* or _start > _end it fails with status 400.
C36_RangeIsExact ==
  /\ store.lastPut.op = "putAttachment"
  /\ store.reply.op = "getAttachment"
  /\ store.reply.id = store.lastPut.id
  /\ store.reply.name = store.lastPut.name
  => LET bytes == store.lastPut.blob
         start == store.reply.start
         end == store.reply.end
         result == store.reply.result
     IN IF start < 0 \/ end < 0 \/ start > end
        THEN result = [state |-> "rejected", value |-> JIOError(400)]
        ELSE /\ result.state = "fulfilled"
             /\ result.value = Slice(bytes, start, Min({end, Len(bytes)}))

====
